---- MODULE Spec2Model ----
(***************************************************************************)
(* Model of the Flipkart/Ninjacart GRN ingestion pipeline:                 *)
(*   src/flipkartninjutsu_auto.py  (the command-line script, impl "auto")  *)
(*   src/app.py                    (the Streamlit application, impl "app") *)
(*                                                                         *)
(* Text is a sequence of one-character strings, so that strip() and        *)
(* replace("'", "") are computed character by character.  A cell of a      *)
(* pandas DataFrame is a record: a string, a number or the missing value.  *)
(***************************************************************************)
EXTENDS Integers, Sequences, FiniteSets, TLC

VARIABLES
    (* the table post-processor, applied twice (SpecClean) *)
    cphase, cin, cout1, cout2,
    (* the raw container decoder on one container (SpecDecode) *)
    dphase, container, dhr, dout, dout_app,
    (* the cell value normalizer on one value (SpecCell) *)
    vphase, value_in, cleaned,
    (* the column-letter loop on one cell reference (SpecColumn) *)
    col_letters, letter_pos, col_num,
    (* the combined workflow of the user interface (SpecCombined) *)
    ui_pc, emails, email_idx, total_attachments, gmail_success, gmail_processed,
    excel_success, excel_processed, summary,
    (* _create_drive_folder called in sequence on one Drive (SpecFolder) *)
    folders, next_id, folder_calls,
    (* _sanitize_filename on one file name (SpecSanitize) *)
    sphase, filename, sanitized,
    (* one run of main / process_excel_workflow (Spec) *)
    impl, header_row, pc, nfiles, file_idx, strat, parsed, df,
    sheet_has_headers, is_first_file, processed_count, store,
    last_invoked, nonempty_count, after_hit, clean_calls, hdr_epoch, appends,
    store_calls, pass, log

cleanVars == <<cphase, cin, cout1, cout2>>
decodeVars == <<dphase, container, dhr, dout, dout_app>>
cellVars == <<vphase, value_in, cleaned>>
columnVars == <<col_letters, letter_pos, col_num>>
uiVars == <<ui_pc, emails, email_idx, total_attachments, gmail_success, gmail_processed,
            excel_success, excel_processed, summary>>
folderVars == <<folders, next_id, folder_calls>>
sanitizeVars == <<sphase, filename, sanitized>>
runVars == <<impl, header_row, pc, nfiles, file_idx, strat, parsed, df,
             sheet_has_headers, is_first_file, processed_count, store,
             last_invoked, nonempty_count, after_hit, clean_calls, hdr_epoch,
             appends, store_calls, pass, log>>
(* the variables of a run other than its position *)
runLocals == <<impl, header_row, nfiles, file_idx, strat, parsed, df,
               sheet_has_headers, is_first_file, processed_count, store,
               last_invoked, nonempty_count, after_hit, clean_calls, hdr_epoch,
               appends, store_calls, pass, log>>
vars == <<cleanVars, decodeVars, cellVars, columnVars, uiVars, folderVars, sanitizeVars, runVars>>
(* what the actions of one part leave alone *)
nonRunVars == <<cleanVars, decodeVars, cellVars, columnVars, uiVars, folderVars, sanitizeVars>>
nonCleanVars == <<runVars, decodeVars, cellVars, columnVars, uiVars, folderVars, sanitizeVars>>
nonDecodeVars == <<runVars, cleanVars, cellVars, columnVars, uiVars, folderVars, sanitizeVars>>
nonCellVars == <<runVars, cleanVars, decodeVars, columnVars, uiVars, folderVars, sanitizeVars>>
nonColumnVars == <<runVars, cleanVars, decodeVars, cellVars, uiVars, folderVars, sanitizeVars>>
nonUiVars == <<cleanVars, decodeVars, cellVars, columnVars, runVars, folderVars, sanitizeVars>>
nonFolderVars == <<cleanVars, decodeVars, cellVars, columnVars, uiVars, runVars, sanitizeVars>>
nonSanitizeVars == <<cleanVars, decodeVars, cellVars, columnVars, uiVars, folderVars, runVars>>

(***************************************************************************)
(* Bounds of the model.                                                    *)
(***************************************************************************)
MaxCleanRows == 2
MaxFiles == 2
MaxParsedRows == 2
MaxSheetRows == 2
MaxTextLen == 4
MaxNumber == 12
MaxLetters == 2
MaxEmails == 2
MaxCalls == 3
MaxBaseLen == 102
MaxExtLen == 6

(***************************************************************************)
(* Text and cells.                                                         *)
(***************************************************************************)
Whitespace == {" "}

RECURSIVE LStrip(_)
LStrip(t) == IF t # <<>> /\ Head(t) \in Whitespace THEN LStrip(Tail(t)) ELSE t

RECURSIVE RStrip(_)
RStrip(t) ==
    IF t # <<>> /\ t[Len(t)] \in Whitespace
        THEN RStrip(SubSeq(t, 1, Len(t) - 1))
        ELSE t

(* str.strip() *)
Strip(t) == RStrip(LStrip(t))

IsApostrophe(c) == c = "'"

(* str.replace("'", "") *)
RemoveApostrophes(t) == SelectSeq(t, LAMBDA c : ~IsApostrophe(c))

DigitChar(d) == <<"0", "1", "2", "3", "4", "5", "6", "7", "8", "9">>[d + 1]

(* str(n) of a non-negative int *)
RECURSIVE Digits(_)
Digits(n) == IF n < 10 THEN <<DigitChar(n)>> ELSE Digits(n \div 10) \o <<DigitChar(n % 10)>>

NaN == [k |-> "nan", n |-> 0, s |-> <<>>]
Num(i) == [k |-> "num", n |-> i, s |-> <<>>]
Str(t) == [k |-> "str", n |-> 0, s |-> t]

IsNa(c) == c.k = "nan"

txt_nan == <<"n", "a", "n">>

(* str(value) of one element of a column of the given dtype: an int64     *)
(* column and an object column hold Python ints, a float64 column floats. *)
AsStr(c, dtype) ==
    CASE c.k = "str" -> c.s
      [] c.k = "nan" -> txt_nan
      [] c.k = "num" -> IF dtype = "float64" THEN Digits(c.n) \o <<".", "0">> ELSE Digits(c.n)

(* the dtype pandas infers for a parsed column *)
InferDtype(cells) ==
    IF \E i \in DOMAIN cells : cells[i].k = "str" THEN "object"
    ELSE IF \E i \in DOMAIN cells : cells[i].k = "nan" THEN "float64"
    ELSE "int64"

Column(rows, j) == [i \in DOMAIN rows |-> rows[i][j]]

(* A DataFrame: column labels, one dtype per column, rows of cells. *)
Frame(columns, rows) ==
    [columns |-> columns,
     dtypes |-> [j \in DOMAIN columns |-> InferDtype(Column(rows, j))],
     rows |-> rows]

EmptyFrame == [columns |-> <<>>, dtypes |-> <<>>, rows |-> <<>>]

(* DataFrame.empty *)
IsEmpty(d) == Len(d.rows) = 0 \/ Len(d.columns) = 0

(***************************************************************************)
(* clean_cell_value                                                        *)
(***************************************************************************)
clean_cell_value(value) ==
    CASE value.k = "nan" -> <<>>
      [] value.k = "num" -> Digits(value.n)
      [] value.k = "str" -> RemoveApostrophes(Strip(value.s))

(***************************************************************************)
(* clean_dataframe                                                         *)
(***************************************************************************)
(* df[col] = df[col].astype(str).str.replace("'", "") on object columns *)
StripQuotes(d) ==
    [d EXCEPT !.rows =
        [i \in DOMAIN d.rows |->
            [j \in DOMAIN d.columns |->
                IF d.dtypes[j] = "object"
                    THEN Str(RemoveApostrophes(AsStr(d.rows[i][j], "object")))
                    ELSE d.rows[i][j]]]]

(* the negation of the mask: the second column is blank *)
SecondColBlankEmptyOnly(d, row) ==
    \/ IsNa(row[2])
    \/ AsStr(row[2], d.dtypes[2]) = <<>>

SecondColBlank(d, row) ==
    \/ IsNa(row[2])
    \/ Strip(AsStr(row[2], d.dtypes[2])) = <<>>
    \/ Strip(AsStr(row[2], d.dtypes[2])) = txt_nan

DropBlankSecond(d) ==
    IF Len(d.columns) >= 2
        THEN [d EXCEPT !.rows = SelectSeq(d.rows, LAMBDA r : ~SecondColBlank(d, r))]
        ELSE d

(* keep the rows whose key (keys[i] for rows[i]) was not seen before, in order *)
RECURSIVE KeepFirst(_, _, _)
KeepFirst(rows, keys, seen) ==
    IF rows = <<>> THEN <<>>
    ELSE IF Head(keys) \in seen
        THEN KeepFirst(Tail(rows), Tail(keys), seen)
        ELSE <<Head(rows)>> \o KeepFirst(Tail(rows), Tail(keys), seen \cup {Head(keys)})

(* DataFrame.drop_duplicates() *)
drop_duplicates_keeps_all(d) == d

drop_duplicates(d) == [d EXCEPT !.rows = KeepFirst(d.rows, d.rows, {})]

clean_dataframe_filter_first(d) ==
    IF IsEmpty(d) THEN d ELSE drop_duplicates(StripQuotes(DropBlankSecond(d)))

clean_dataframe(d) ==
    IF IsEmpty(d) THEN d ELSE drop_duplicates(DropBlankSecond(StripQuotes(d)))

(***************************************************************************)
(* The destination store (one sheet of the spreadsheet): a sequence of     *)
(* rows, each a sequence of texts.                                         *)
(***************************************************************************)
txt_PurchaseOrderId ==
    <<"P", "u", "r", "c", "h", "a", "s", "e", "O", "r", "d", "e", "r", "I", "d">>
txt_SkuId == <<"S", "k", "u", "I", "d">>
txt_Qty == <<"Q", "t", "y">>
txt_Item == <<"I", "t", "e", "m">>
txt_PO1 == <<"P", "O", "1">>
txt_PO2 == <<"P", "O", "2">>
txt_S1 == <<"S", "1">>
txt_S2 == <<"S", "2">>

(* f"Column_{i+1}" *)
ColumnName(i) == <<"C", "o", "l", "u", "m", "n", "_">> \o Digits(i + 1)

KeyHeader == <<Str(txt_PurchaseOrderId), Str(txt_SkuId), Str(txt_Qty)>>
OtherHeader == <<Str(txt_Item), Str(txt_SkuId), Str(txt_Qty)>>
(* the labels pandas gives with header=None *)
IntLabels == <<Num(0), Num(1), Num(2)>>
(* the labels try_xlwings and try_raw_xml_extraction synthesize *)
SyntheticLabels == [i \in 1..3 |-> Str(ColumnName(i - 1))]

(* the value a store cell shows for a transmitted JSON value *)
CellText(c) == IF c.k = "num" THEN Digits(c.n) ELSE c.s

RowText(r) == [j \in DOMAIN r |-> CellText(r[j])]

Max(a, b) == IF a >= b THEN a ELSE b

(* values().get(range="<sheet>!A1"): the first cell, when there is one *)
ReadA1(s) == IF s # <<>> /\ s[1] # <<>> THEN <<<<s[1][1]>>>> ELSE <<>>

(* values().get(range="<sheet>!A:A"): the first cell of every row *)
ReadColumnA(s) == [i \in DOMAIN s |-> IF s[i] # <<>> THEN <<s[i][1]>> ELSE <<>>]

(* values().get(range="<sheet>!A1:ZZ"): every row *)
ReadAll(s) == s

(* one written row laid over the row that was there *)
Overlay(new, old) ==
    IF Len(old) > Len(new) THEN new \o SubSeq(old, Len(new) + 1, Len(old)) ELSE new

(* values().append(range="<sheet>!A{start_row}", body={"values": values}): *)
(* the rows are written from row start_row on.                             *)
WriteAt(s, start_row, values) ==
    LET last == Max(Len(s), start_row + Len(values) - 1)
    IN  [i \in 1..last |->
            IF i >= start_row /\ i < start_row + Len(values)
                THEN Overlay(RowText(values[i - start_row + 1]),
                             IF i <= Len(s) THEN s[i] ELSE <<>>)
                ELSE IF i <= Len(s) THEN s[i] ELSE <<>>]

(***************************************************************************)
(* try_raw_xml_extraction (auto), _try_raw_xml_extraction (app)            *)
(*                                                                         *)
(* A container is the archive as the decoder sees it: whether it opens as  *)
(* a ZIP, the text runs of xl/sharedStrings.xml when that part exists,     *)
(* whether a worksheet part exists, and the <c> records of the first       *)
(* worksheet in document order.  A record carries its reference (column    *)
(* letters and row number), its t attribute and its optional <v> and       *)
(* <is><t> payloads.                                                       *)
(***************************************************************************)
Letters ==
    <<"A", "B", "C", "D", "E", "F", "G", "H", "I", "J", "K", "L", "M",
      "N", "O", "P", "Q", "R", "S", "T", "U", "V", "W", "X", "Y", "Z">>

(* ord(c) - ord('A') + 1 *)
LetterValue(c) == CHOOSE i \in DOMAIN Letters : Letters[i] = c

(* the body of "for c in col_letters":                       *)
(* col_num = col_num * 26 + (ord(c) - ord('A') + 1)           *)
ColumnStepZeroBased(n, c) == n * 26 + (LetterValue(c) - 1)

ColumnStep(n, c) == n * 26 + LetterValue(c)

(* the loop over the letters of a reference, from col_num = 0 *)
RECURSIVE ColumnNumber(_)
ColumnNumber(ls) ==
    IF ls = <<>> THEN 0
    ELSE ColumnStep(ColumnNumber(SubSeq(ls, 1, Len(ls) - 1)), ls[Len(ls)])

(* the first record from `from` on that has a <v> element, 0 if none *)
FirstWithV(recs, from) ==
    IF \E i \in from..Len(recs) : recs[i].has_v
        THEN CHOOSE i \in from..Len(recs) :
                recs[i].has_v /\ \A h \in from..(i - 1) : ~recs[h].has_v
        ELSE 0

(* the first record from `from` on that has an <is><t> element, 0 if none *)
FirstWithIs(recs, from) ==
    IF \E i \in from..Len(recs) : recs[i].has_is
        THEN CHOOSE i \in from..Len(recs) :
                recs[i].has_is /\ \A h \in from..(i - 1) : ~recs[h].has_is
        ELSE 0

(* One match of cell_pattern that starts at record p.  The greedy [^>]*   *)
(* after the reference swallows a t attribute, so the optional t group    *)
(* never takes part and cell_type is the empty string.  The lazy          *)
(* ".*?<v" and ".*?<is><t" run over the end of the record, with DOTALL    *)
(* to the first <v> and then to the first <is><t> anywhere after it; the  *)
(* match ends where the last group that matched ends.                     *)
MatchAt(recs, p) ==
    LET q == FirstWithV(recs, p)
        from == IF q # 0 THEN q ELSE p
        q2 == FirstWithIs(recs, from)
    IN  [col |-> recs[p].col,
         row |-> recs[p].row,
         cell_type |-> <<>>,
         v_value |-> IF q # 0 THEN recs[q].v ELSE <<>>,
         is_value |-> IF q2 # 0 THEN recs[q2].is_text ELSE <<>>,
         end |-> IF q2 # 0 THEN q2 ELSE from]

(* re.findall(cell_pattern, content, re.DOTALL): the next match is looked *)
(* for after the end of the previous one                                  *)
RECURSIVE FindCellsFrom(_, _)
FindCellsFrom(recs, p) ==
    IF p > Len(recs) THEN <<>>
    ELSE <<MatchAt(recs, p)>> \o FindCellsFrom(recs, MatchAt(recs, p).end + 1)

FindCells(recs) == FindCellsFrom(recs, 1)

(* shared_strings[str(i)] = string_val.strip(), looked up by              *)
(* shared_strings.get(v_value, v_value)                                   *)
SharedStringsGet(strings, v_value) ==
    IF \E i \in DOMAIN strings : Digits(i - 1) = v_value
        THEN Strip(strings[CHOOSE i \in DOMAIN strings : Digits(i - 1) = v_value])
        ELSE v_value

(* the if/elif chain that picks the value of a cell; the branch for       *)
(* cell_type == 'str' exists in auto only                                 *)
CellValue(m, strings, str_branch) ==
    IF m.is_value # <<>> THEN Strip(m.is_value)
    ELSE IF m.cell_type = <<"s">> /\ m.v_value # <<>>
        THEN SharedStringsGet(strings, m.v_value)
    ELSE IF str_branch /\ m.cell_type = <<"s", "t", "r">> /\ m.v_value # <<>>
        THEN Strip(m.v_value)
    ELSE IF m.v_value # <<>> THEN Strip(m.v_value)
    ELSE <<>>

(* cell_data.get((row, col), ""): the last match with this reference wins *)
CellData(cells, strings, str_branch, row, col) ==
    LET hits == {i \in DOMAIN cells :
                    cells[i].row = row /\ ColumnNumber(cells[i].col) = col}
    IN  IF hits = {} THEN <<>>
        ELSE LET last == CHOOSE i \in hits : \A h \in hits : h <= i
             IN  clean_cell_value(Str(CellValue(cells[last], strings, str_branch)))

(* max_row = max(max_row, row_num) over the matches, from 0 *)
MaxRow(cells) ==
    IF cells = <<>> THEN 0
    ELSE CHOOSE m \in {cells[i].row : i \in DOMAIN cells} :
            \A i \in DOMAIN cells : cells[i].row <= m

(* max_col = max(max_col, col_num) over the matches, from 0 *)
MaxCol(cells) ==
    IF cells = <<>> THEN 0
    ELSE CHOOSE m \in {ColumnNumber(cells[i].col) : i \in DOMAIN cells} :
            \A i \in DOMAIN cells : ColumnNumber(cells[i].col) <= m

(* "if any(cell for cell in row_data)" *)
AnyCellKeepsAll(row_data) == TRUE

AnyCell(row_data) == \E j \in DOMAIN row_data : row_data[j] # <<>>

(* the dense grid, rows 1..max_row by columns 1..max_col, blank rows dropped *)
GridData(cells, strings, str_branch) ==
    LET max_row == MaxRow(cells)
        max_col == MaxCol(cells)
        grid == [r \in 1..max_row |->
                    [c \in 1..max_col |-> CellData(cells, strings, str_branch, r, c)]]
    IN  SelectSeq(grid, AnyCell)

TextFrame(labels, data) ==
    Frame([j \in DOMAIN labels |-> Str(labels[j])],
          [i \in DOMAIN data |-> [j \in DOMAIN data[i] |-> Str(data[i][j])]])

(* the header policy: header_row == -1 names the columns Column_1.., a    *)
(* header row gives its cells as names, Column_i for a blank one          *)
ApplyHeaderPolicyBlankNames(data, hr) ==
    IF Len(data) < Max(1, hr + 2) THEN EmptyFrame
    ELSE IF hr = -1
        THEN TextFrame([j \in DOMAIN data[1] |-> ColumnName(j - 1)], data)
    ELSE TextFrame(data[hr + 1], SubSeq(data, hr + 2, Len(data)))

ApplyHeaderPolicy(data, hr) ==
    IF Len(data) < Max(1, hr + 2) THEN EmptyFrame
    ELSE IF hr = -1
        THEN TextFrame([j \in DOMAIN data[1] |-> ColumnName(j - 1)], data)
    ELSE IF Len(data) > hr
        THEN TextFrame([j \in DOMAIN data[hr + 1] |->
                            IF data[hr + 1][j] # <<>> THEN data[hr + 1][j]
                            ELSE ColumnName(j - 1)],
                       SubSeq(data, hr + 2, Len(data)))
    ELSE EmptyFrame

RawXmlExtraction(c, hr, str_branch) ==
    IF ~c.zip_ok THEN EmptyFrame
    ELSE LET strings == IF c.ss_present /\ c.ss_ok THEN c.ss ELSE <<>>
             cells == FindCells(c.cells)
         IN  IF ~c.has_sheet THEN EmptyFrame
             ELSE IF ~c.sheet_ok THEN EmptyFrame
             ELSE IF cells = <<>> THEN EmptyFrame
             ELSE ApplyHeaderPolicy(GridData(cells, strings, str_branch), hr)

(* the statements of the try block that raise: zipfile.ZipFile on a stream *)
(* that is no archive, and the read of the worksheet member                *)
RawXmlRaises(c) == ~c.zip_ok \/ (c.has_sheet /\ ~c.sheet_ok)

(* "except Exception as e: ... return pd.DataFrame()" around the whole body *)
RawXmlExceptMissing(raised, f) == [raises |-> raised, frame |-> f]

RawXmlExcept(raised, f) ==
    [raises |-> FALSE, frame |-> IF raised THEN EmptyFrame ELSE f]

(* what a call of the decoder gives its caller *)
RawXmlOutcome(c, hr, str_branch) ==
    RawXmlExcept(RawXmlRaises(c), RawXmlExtraction(c, hr, str_branch))

try_raw_xml_extraction(c, hr) == RawXmlOutcome(c, hr, TRUE).frame

_try_raw_xml_extraction_no_header(c, hr) == RawXmlOutcome(c, -1, FALSE).frame

_try_raw_xml_extraction(c, hr) == RawXmlOutcome(c, hr, FALSE).frame

(***************************************************************************)
(* append_to_sheet (auto) and _append_to_sheet (app)                       *)
(***************************************************************************)
(* data.fillna('').astype(str) *)
fillna_astype_str(d) ==
    [i \in DOMAIN d.rows |->
        [j \in DOMAIN d.columns |->
            IF IsNa(d.rows[i][j]) THEN Str(<<>>)
            ELSE Str(AsStr(d.rows[i][j], d.dtypes[j]))]]

(* What one call of the writer asks of the store: the row it writes at  *)
(* and the values it sends.                                             *)
append_to_sheet(s, data, append_headers, has_headers) ==
    LET existing_rows == ReadA1(s)
        start_row0 == IF existing_rows # <<>> THEN Len(existing_rows) + 1 ELSE 1
        start_row == IF has_headers /\ ~append_headers
                        THEN (IF Len(existing_rows) >= 1 THEN 2 ELSE 1)
                        ELSE start_row0
        clean_data == fillna_astype_str(data)
        with_header == append_headers /\ (existing_rows = <<>> \/ start_row = 1)
    IN  [start_row |-> start_row,
         with_header |-> with_header,
         values |-> IF with_header THEN <<data.columns>> \o clean_data ELSE clean_data]

_append_to_sheet(s, data, append_headers) ==
    LET clean_data == fillna_astype_str(data)
        existing_rows == ReadColumnA(s)
    IN  [start_row |-> IF existing_rows # <<>> THEN Len(existing_rows) + 1 ELSE 1,
         with_header |-> append_headers,
         values |-> IF append_headers THEN <<data.columns>> \o clean_data ELSE clean_data]

(***************************************************************************)
(* remove_duplicates_from_sheet (auto), _remove_duplicates_from_sheet (app) *)
(***************************************************************************)
(* the position of a column name in the header, 0 when absent *)
ColumnIndex(headers, name) ==
    IF \E j \in DOMAIN headers : headers[j] = name
        THEN CHOOSE j \in DOMAIN headers :
                /\ headers[j] = name
                /\ \A h \in 1..(j - 1) : headers[h] # name
        ELSE 0

HasKeyColumns(headers) ==
    ColumnIndex(headers, txt_PurchaseOrderId) # 0 /\ ColumnIndex(headers, txt_SkuId) # 0

(* a cell of the frame pd.DataFrame(rows, columns=headers): None pads a short row *)
CellOrNone(row, j) == IF j <= Len(row) THEN row[j] ELSE <<"<None>">>

DedupKey(headers, row) ==
    <<CellOrNone(row, ColumnIndex(headers, txt_PurchaseOrderId)),
      CellOrNone(row, ColumnIndex(headers, txt_SkuId))>>

RECURSIVE MaxLen(_)
MaxLen(rows) == IF rows = <<>> THEN 0 ELSE Max(Len(Head(rows)), MaxLen(Tail(rows)))

(* pd.DataFrame(rows, columns=headers) raises when the widths differ *)
DataFrameRaises(headers, rows) == rows # <<>> /\ MaxLen(rows) # Len(headers)

drop_duplicates_subset_last(headers, rows) ==
    LET Rev(q) == [i \in DOMAIN q |-> q[Len(q) + 1 - i]]
    IN  Rev(KeepFirst(Rev(rows), [i \in DOMAIN rows |-> DedupKey(headers, Rev(rows)[i])], {}))

(* df.drop_duplicates(subset=["PurchaseOrderId", "SkuId"], keep="first") *)
drop_duplicates_subset(headers, rows) ==
    KeepFirst(rows, [i \in DOMAIN rows |-> DedupKey(headers, rows[i])], {})

(***************************************************************************)
(* The strategy cascade: read_excel_file (auto), _read_excel_file_robust   *)
(* (app).                                                                  *)
(***************************************************************************)
Strategies(i) ==
    IF i = "auto"
        THEN <<"openpyxl", "xlrd", "calamine", "pyxlsb", "xlwings",
               "raw_xml", "libreoffice", "ssconvert">>
        ELSE <<"openpyxl", "xlrd", "raw_xml">>

(* attempted only for some files or hosts: xlrd when the file name ends *)
(* in .xls, pyxlsb when the module can be imported                      *)
Conditional(s) == s \in {"xlrd", "pyxlsb"}

(* the rows a parser may find in a file *)
RowPool ==
    { <<Str(txt_PO1), Str(txt_S1), Num(1)>>,
      <<Str(txt_PO1), Str(txt_S1), Num(2)>>,
      <<Str(txt_PO2), NaN, Num(1)>>,
      <<NaN, Str(<<"'">> \o txt_S2), NaN>> }

ParsedRows == UNION {[1..n -> RowPool] : n \in 1..MaxParsedRows}

FramesLabelled(l) == {Frame(l, r) : r \in ParsedRows}

(* header=None in pandas: integer labels *)
FramesIntLabels == FramesLabelled(IntLabels)
(* header_row == -1 in try_xlwings and try_raw_xml_extraction *)
FramesSyntheticLabels == FramesLabelled(SyntheticLabels)
(* the labels are the cells of the header row of the file *)
FramesHeaderRow == FramesLabelled(KeyHeader) \cup FramesLabelled(OtherHeader)

(* the frames a strategy may build under the run's header_row *)
ParsedFrames(s, hr) ==
    IF hr = -1
        THEN (IF s \in {"xlwings", "raw_xml"} THEN FramesSyntheticLabels ELSE FramesIntLabels)
        ELSE FramesHeaderRow

(* "if not df.empty": the cascade returns the cleaned table *)
StrategyNeverReturns(d) == FALSE

StrategyReturns(d) == ~IsEmpty(d)

InitialStores ==
    { <<>>,
      <<RowText(KeyHeader)>>,
      <<RowText(KeyHeader), <<txt_PO1, txt_S1, <<"1">>>>, <<txt_PO1, txt_S1, <<"2">>>>>>,
      <<<<txt_PurchaseOrderId, txt_SkuId>>>> }

NoPass == [state |-> "none", before |-> <<>>]

RunInit ==
    /\ impl \in {"app", "auto"}
    /\ header_row \in {-1, 0}
    /\ nfiles \in 0..MaxFiles
    /\ store \in InitialStores
    /\ pc = "start"
    /\ file_idx = 0
    /\ strat = 0
    /\ parsed = EmptyFrame
    /\ df = EmptyFrame
    /\ sheet_has_headers = FALSE
    /\ is_first_file = TRUE
    /\ processed_count = 0
    /\ last_invoked = 0
    /\ nonempty_count = 0
    /\ after_hit = 0
    /\ clean_calls = 0
    /\ hdr_epoch = 0
    /\ appends = <<>>
    /\ store_calls = 0
    /\ pass = NoPass
    /\ log = "start"

(* "if not excel_files: return" *)
NoFiles ==
    /\ pc = "start"
    /\ nfiles = 0
    /\ pc' = "done"
    /\ log' = "no files"
    /\ UNCHANGED <<nonRunVars, impl, header_row, nfiles, file_idx, strat, parsed, df, sheet_has_headers,
                   is_first_file, processed_count, store, last_invoked, nonempty_count,
                   after_hit, clean_calls,
                   hdr_epoch, appends, store_calls, pass>>

(* _check_sheet_headers (app); the try block before the loop of main (auto) *)
_check_sheet_headers ==
    /\ pc = "start"
    /\ nfiles > 0
    /\ \E read_ok \in BOOLEAN :
        /\ sheet_has_headers' = IF read_ok THEN ReadA1(store) # <<>> ELSE FALSE
        /\ log' = IF read_ok THEN "headers checked" ELSE "header check failed"
    /\ hdr_epoch' = Len(appends)
    /\ store_calls' = store_calls + 1
    /\ pc' = "next_file"
    /\ UNCHANGED <<nonRunVars, impl, header_row, nfiles, file_idx, strat, parsed, df, is_first_file,
                   processed_count, store, last_invoked, nonempty_count,
                   after_hit, clean_calls, appends, pass>>

(* the download at the head of read_excel_file / _read_excel_file_robust *)
Download ==
    /\ pc = "next_file"
    /\ file_idx < nfiles
    /\ file_idx' = file_idx + 1
    /\ last_invoked' = 0
    /\ nonempty_count' = 0
    /\ after_hit' = 0
    /\ clean_calls' = 0
    /\ parsed' = EmptyFrame
    /\ df' = EmptyFrame
    /\ \E ok \in BOOLEAN :
        IF ok
            THEN /\ pc' = "cascade"
                 /\ strat' = 1
                 /\ log' = "downloaded"
            ELSE /\ strat' = 0
                 (* app catches and returns the empty frame; in auto the *)
                 (* exception leaves read_excel_file and main            *)
                 /\ pc' = IF impl = "app" THEN "parsed" ELSE "crashed"
                 /\ log' = "download failed"
    /\ UNCHANGED <<nonRunVars, impl, header_row, nfiles, sheet_has_headers, is_first_file,
                   processed_count, store, hdr_epoch, appends, store_calls, pass>>

(* a strategy that is not attempted for this file *)
SkipStrategy ==
    /\ pc = "cascade"
    /\ strat <= Len(Strategies(impl))
    /\ Conditional(Strategies(impl)[strat])
    /\ strat' = strat + 1
    /\ log' = "strategy skipped"
    /\ UNCHANGED <<nonRunVars, impl, header_row, pc, nfiles, file_idx, parsed, df, sheet_has_headers,
                   is_first_file, processed_count, store, last_invoked, nonempty_count,
                   after_hit, clean_calls,
                   hdr_epoch, appends, store_calls, pass>>

(* What a strategy hands to the cascade.  Every strategy runs inside a    *)
(* try block, its own or the cascade's, whose handler logs the exception: *)
(* a strategy that raises leaves no frame.                                *)
StrategyOutcomeUncaught(raised, f) == [raises |-> raised, frame |-> f]

StrategyOutcome(raised, f) ==
    [raises |-> FALSE, frame |-> IF raised THEN EmptyFrame ELSE f]

(* one strategy: it raises, or returns a frame, empty or not *)
TryStrategy ==
    /\ pc = "cascade"
    /\ strat <= Len(Strategies(impl))
    /\ \E raised \in BOOLEAN :
       \E f \in ParsedFrames(Strategies(impl)[strat], header_row) \cup {EmptyFrame} :
        LET out == StrategyOutcome(raised, f)
            d == out.frame
        IN  /\ raised => f = EmptyFrame
            /\ last_invoked' = strat
            /\ nonempty_count' = nonempty_count + (IF IsEmpty(d) THEN 0 ELSE 1)
            /\ after_hit' = after_hit + (IF nonempty_count > 0 THEN 1 ELSE 0)
            /\ IF out.raises
                 THEN /\ pc' = "crashed"
                      /\ log' = "exception"
                      /\ UNCHANGED <<parsed, df, clean_calls, strat>>
                 ELSE IF StrategyReturns(d)
                 THEN /\ parsed' = d
                      /\ df' = clean_dataframe(d)
                      /\ clean_calls' = clean_calls + 1
                      /\ pc' = "parsed"
                      /\ log' = "SUCCESS"
                      /\ UNCHANGED strat
                 ELSE /\ strat' = strat + 1
                      /\ log' = IF raised THEN "strategy failed" ELSE "strategy empty"
                      /\ UNCHANGED <<parsed, df, clean_calls, pc>>
    /\ UNCHANGED <<nonRunVars, impl, header_row, nfiles, file_idx, sheet_has_headers,
                   is_first_file, processed_count, store, hdr_epoch, appends,
                   store_calls, pass>>

(* "FAILED - All strategies failed": the cascade returns the empty frame *)
AllStrategiesFailed ==
    /\ pc = "cascade"
    /\ strat > Len(Strategies(impl))
    /\ parsed' = EmptyFrame
    /\ df' = EmptyFrame
    /\ pc' = "parsed"
    /\ log' = "FAILED - All strategies failed"
    /\ UNCHANGED <<nonRunVars, impl, header_row, nfiles, file_idx, strat, sheet_has_headers,
                   is_first_file, processed_count, store, last_invoked, nonempty_count,
                   after_hit, clean_calls,
                   hdr_epoch, appends, store_calls, pass>>

(***************************************************************************)
(* The body of the file loop after the cascade: main (auto),               *)
(* process_excel_workflow (app).                                           *)
(***************************************************************************)
(* the end of one iteration of the file loop: its locals are dead *)
EndOfIteration ==
    /\ strat' = 0
    /\ parsed' = EmptyFrame
    /\ df' = EmptyFrame
    /\ last_invoked' = 0
    /\ UNCHANGED <<nonempty_count, after_hit, clean_calls>>

(* "if df.empty: ... continue" *)
NothingToWriteNever(d) == FALSE

NothingToWrite(d) == IsEmpty(d)

SkipFile ==
    /\ pc = "parsed"
    /\ NothingToWrite(df)
    /\ pc' = "next_file"
    /\ log' = "SKIPPED - No data extracted"
    /\ EndOfIteration
    /\ UNCHANGED <<nonRunVars, impl, header_row, nfiles, file_idx, sheet_has_headers,
                   is_first_file, processed_count, store, hdr_epoch, appends,
                   store_calls, pass>>

(* the request the writer of this implementation builds *)
AppendRequest(append_headers) ==
    IF impl = "auto"
        THEN append_to_sheet(store, df, append_headers, sheet_has_headers)
        ELSE _append_to_sheet(store, df, append_headers)

(* where the loop goes when the writer raises: "except Exception as e:"  *)
(* logs, counts the failure and lets the loop take the next file         *)
AppendExceptMissing == "crashed"

AppendExcept == "next_file"

AppendFile ==
    /\ pc = "parsed"
    /\ ~NothingToWrite(df)
    /\ LET append_headers == is_first_file /\ ~sheet_has_headers
           req == AppendRequest(append_headers)
           entry == [file |-> file_idx,
                     start_row |-> req.start_row,
                     with_header |-> req.with_header,
                     values |-> req.values,
                     columns |-> df.columns,
                     rows_before |-> Len(store),
                     first_written |-> processed_count = 0,
                     hdr_epoch |-> hdr_epoch,
                     rows_epoch |-> Len(appends)]
       IN  \/ (* the read of the store raises: no append call is made *)
              /\ store_calls' = store_calls + 1
              /\ log' = "append failed: read"
              /\ pc' = AppendExcept
              /\ UNCHANGED <<store, appends, processed_count, is_first_file,
                             sheet_has_headers>>
           \/ (* the append call raises *)
              /\ store_calls' = store_calls + 2
              /\ log' = "append failed: write"
              /\ pc' = AppendExcept
              /\ UNCHANGED <<store, appends, processed_count, is_first_file,
                             sheet_has_headers>>
           \/ (* "if not values: return" (app) makes no call at all *)
              /\ IF impl = "app" /\ req.values = <<>>
                    THEN UNCHANGED <<store_calls, store, appends>>
                    ELSE /\ store_calls' = store_calls + 2
                         /\ store' = WriteAt(store, req.start_row, req.values)
                         /\ appends' = Append(appends, entry)
              /\ processed_count' = processed_count + 1
              /\ is_first_file' = FALSE
              /\ sheet_has_headers' = TRUE
              /\ log' = "APPENDED"
              /\ pc' = "next_file"
    /\ EndOfIteration
    /\ UNCHANGED <<nonRunVars, impl, header_row, nfiles, file_idx, hdr_epoch, pass>>

(* after the last file: the dedup pass runs when a file was appended *)
NoDedup ==
    /\ pc = "next_file"
    /\ file_idx = nfiles
    /\ processed_count = 0
    /\ pc' = "done"
    /\ log' = "completed"
    /\ UNCHANGED <<nonRunVars, impl, header_row, nfiles, file_idx, strat, parsed, df, sheet_has_headers,
                   is_first_file, processed_count, store, last_invoked, nonempty_count,
                   after_hit, clean_calls,
                   hdr_epoch, appends, store_calls, pass>>

(* remove_duplicates_from_sheet / _remove_duplicates_from_sheet: the read, *)
(* the frame, the clear and the rewrite; any of the three calls may raise, *)
(* and the handler's except logs it.                                       *)
RemoveDuplicates ==
    /\ pc = "next_file"
    /\ file_idx = nfiles
    /\ processed_count > 0
    /\ LET values == ReadAll(store)
           headers == values[1]
           rows == SubSeq(values, 2, Len(values))
           keyed == HasKeyColumns(headers)
           kept == IF keyed THEN drop_duplicates_subset(headers, rows) ELSE rows
           rewrites == IF impl = "auto" THEN TRUE ELSE keyed
       IN  \/ /\ pass' = [state |-> "read failed", before |-> store]
              /\ store_calls' = store_calls + 1
              /\ UNCHANGED store
           \/ /\ values = <<>>
              /\ pass' = [state |-> "sheet empty", before |-> store]
              /\ store_calls' = store_calls + 1
              /\ UNCHANGED store
           \/ /\ values # <<>>
              /\ DataFrameRaises(headers, rows)
              /\ pass' = [state |-> "frame failed", before |-> store]
              /\ store_calls' = store_calls + 1
              /\ UNCHANGED store
           \/ /\ values # <<>>
              /\ ~DataFrameRaises(headers, rows)
              /\ ~rewrites
              /\ pass' = [state |-> "skipped", before |-> store]
              /\ store_calls' = store_calls + 1
              /\ UNCHANGED store
           \/ /\ values # <<>>
              /\ ~DataFrameRaises(headers, rows)
              /\ rewrites
              /\ \/ /\ pass' = [state |-> "clear failed", before |-> store]
                    /\ store_calls' = store_calls + 2
                    /\ UNCHANGED store
                 \/ /\ pass' = [state |-> "update failed", before |-> store]
                    /\ store_calls' = store_calls + 3
                    /\ store' = <<>>
                 \/ /\ pass' = [state |-> IF keyed THEN "deduplicated" ELSE "rewritten",
                                before |-> store]
                    /\ store_calls' = store_calls + 3
                    /\ store' = <<headers>> \o kept
    /\ pc' = "done"
    /\ log' = pass'.state
    /\ UNCHANGED <<nonRunVars, impl, header_row, nfiles, file_idx, strat, parsed, df, sheet_has_headers,
                   is_first_file, processed_count, last_invoked, nonempty_count,
                   after_hit, clean_calls,
                   hdr_epoch, appends>>

RunNext ==
    \/ NoFiles
    \/ _check_sheet_headers
    \/ Download
    \/ SkipStrategy
    \/ TryStrategy
    \/ AllStrategiesFailed
    \/ SkipFile
    \/ AppendFile
    \/ NoDedup
    \/ RemoveDuplicates

(***************************************************************************)
(* The post-processor on its own, applied twice to one table.              *)
(***************************************************************************)
CleanCells(j) ==
    CASE j = 1 -> {Str(<<"a">>), Str(<<"'", "a">>), NaN}
      [] j = 2 -> {NaN, Num(1), Str(<<>>), Str(<<" ">>), Str(<<"'">>), Str(<<"a">>),
                   Str(txt_nan), Str(<<"n", "'", "a", "n">>), Str(<<" ", "a", "'">>)}
      [] OTHER -> {Num(1), NaN}

CleanWidths == {1, 2, 3}

AllCleanCells == UNION {CleanCells(j) : j \in CleanWidths}

CleanRows(w) == {r \in [1..w -> AllCleanCells] : \A j \in 1..w : r[j] \in CleanCells(j)}

CleanInputs ==
    UNION {{Frame([j \in 1..w |-> Str(ColumnName(j - 1))], rows) :
                rows \in UNION {[1..n -> CleanRows(w)] : n \in 0..MaxCleanRows}} :
           w \in CleanWidths}

CleanInit ==
    /\ cphase = "input"
    /\ cin \in CleanInputs
    /\ cout1 = EmptyFrame
    /\ cout2 = EmptyFrame

CleanOnce ==
    /\ cphase = "input"
    /\ cout1' = clean_dataframe(cin)
    /\ cphase' = "once"
    /\ UNCHANGED <<nonCleanVars, cin, cout2>>

CleanTwice ==
    /\ cphase = "once"
    /\ cout2' = clean_dataframe(cout1)
    /\ cphase' = "twice"
    /\ UNCHANGED <<nonCleanVars, cin, cout1>>

CleanNext == CleanOnce \/ CleanTwice

(***************************************************************************)
(* The raw decoder on one container                                        *)
(***************************************************************************)
txt_Apple == <<"A", "p", "p", "l", "e">>
txt_Banana == <<"B", "a", "n", "a", "n", "a">>
txt_s == <<"s">>
txt_inlineStr == <<"i", "n", "l", "i", "n", "e", "S", "t", "r">>
txt_x == <<"x">>
txt_str == <<"s", "t", "r">>

(* what a <c> record can carry besides its reference *)
Payloads ==
    << [t |-> <<>>, has_v |-> FALSE, v |-> <<>>, has_is |-> FALSE, is_text |-> <<>>],
      [t |-> txt_s, has_v |-> TRUE, v |-> Digits(0), has_is |-> FALSE, is_text |-> <<>>],
      [t |-> txt_s, has_v |-> TRUE, v |-> Digits(1), has_is |-> FALSE, is_text |-> <<>>],
      [t |-> <<>>, has_v |-> TRUE, v |-> Digits(1), has_is |-> FALSE, is_text |-> <<>>],
      [t |-> txt_inlineStr, has_v |-> FALSE, v |-> <<>>, has_is |-> TRUE, is_text |-> txt_x],
      [t |-> txt_str, has_v |-> TRUE, v |-> <<"y", " ">>, has_is |-> FALSE, is_text |-> <<>>] >>

Record(col, row, p) ==
    [col |-> col, row |-> row, t |-> p.t,
     has_v |-> p.has_v, v |-> p.v, has_is |-> p.has_is, is_text |-> p.is_text]

SheetColumns == <<"A", "B">>

(* the references of the sheet in document order, row by row *)
Refs ==
    [k \in 1..(MaxSheetRows * Len(SheetColumns)) |->
        [col |-> <<SheetColumns[((k - 1) % Len(SheetColumns)) + 1]>>,
         row |-> ((k - 1) \div Len(SheetColumns)) + 1]]

(* a worksheet: each reference is absent (0) or carries one payload *)
RECURSIVE RecordsOf(_, _)
RecordsOf(fill, k) ==
    IF k > Len(Refs) THEN <<>>
    ELSE (IF fill[k] = 0 THEN <<>>
          ELSE <<Record(Refs[k].col, Refs[k].row, Payloads[fill[k]])>>)
         \o RecordsOf(fill, k + 1)

Worksheets ==
    {RecordsOf(fill, 1) : fill \in [DOMAIN Refs -> 0..Len(Payloads)]}

NotZip ==
    [zip_ok |-> FALSE, ss_present |-> FALSE, ss_ok |-> FALSE, ss |-> <<>>,
     has_sheet |-> FALSE, sheet_ok |-> FALSE, cells |-> <<>>]

Containers ==
    {NotZip}
    \cup {[zip_ok |-> TRUE, ss_present |-> sp, ss_ok |-> ok,
           ss |-> IF sp /\ ok THEN <<txt_Apple, txt_Banana>> ELSE <<>>,
           has_sheet |-> TRUE, sheet_ok |-> TRUE, cells |-> w] :
            sp \in BOOLEAN, ok \in BOOLEAN, w \in Worksheets}
    \cup {[zip_ok |-> TRUE, ss_present |-> FALSE, ss_ok |-> FALSE, ss |-> <<>>,
           has_sheet |-> FALSE, sheet_ok |-> FALSE, cells |-> <<>>]}
    \cup {[zip_ok |-> TRUE, ss_present |-> sp, ss_ok |-> sp,
           ss |-> IF sp THEN <<txt_Apple, txt_Banana>> ELSE <<>>,
           has_sheet |-> TRUE, sheet_ok |-> FALSE, cells |-> <<>>] : sp \in BOOLEAN}

HeaderRows == {-1, 0, 1}

DecodeInit ==
    /\ dphase = "input"
    /\ container \in Containers
    /\ dhr \in HeaderRows
    /\ dout = EmptyFrame
    /\ dout_app = EmptyFrame

DecodeAuto ==
    /\ dphase = "input"
    /\ dout' = try_raw_xml_extraction(container, dhr)
    /\ dphase' = IF RawXmlOutcome(container, dhr, TRUE).raises THEN "crashed" ELSE "auto"
    /\ UNCHANGED <<nonDecodeVars, container, dhr, dout_app>>

DecodeApp ==
    /\ dphase = "auto"
    /\ dout_app' = _try_raw_xml_extraction(container, dhr)
    /\ dphase' = IF RawXmlOutcome(container, dhr, FALSE).raises THEN "crashed" ELSE "done"
    /\ UNCHANGED <<nonDecodeVars, container, dhr, dout>>

DecodeNext == DecodeAuto \/ DecodeApp

(***************************************************************************)
(* clean_cell_value on one value                                           *)
(***************************************************************************)
TextAlphabet == {" ", "'", "a"}

Texts == UNION {[1..n -> TextAlphabet] : n \in 0..MaxTextLen}

(* None and NaN, ints, strings *)
CellInputs == {NaN} \cup {Num(n) : n \in 0..MaxNumber} \cup {Str(t) : t \in Texts}

CellInit ==
    /\ vphase = "input"
    /\ value_in \in CellInputs
    /\ cleaned = <<>>

CleanCell ==
    /\ vphase = "input"
    /\ cleaned' = clean_cell_value(value_in)
    /\ vphase' = "done"
    /\ UNCHANGED <<nonCellVars, value_in>>

CellNext == CleanCell

(***************************************************************************)
(* The column-letter loop of the decoder on the letters of one reference   *)
(***************************************************************************)
LetterSet == {Letters[i] : i \in DOMAIN Letters}

(* the letter part of a reference matched by [A-Z]+ *)
LetterStrings == UNION {[1..n -> LetterSet] : n \in 1..MaxLetters}

ColumnInit ==
    /\ col_letters \in LetterStrings
    /\ letter_pos = 1
    /\ col_num = 0

(* one iteration of "for c in col_letters" *)
ColumnLoop ==
    /\ letter_pos \in DOMAIN col_letters
    /\ col_num' = ColumnStep(col_num, col_letters[letter_pos])
    /\ letter_pos' = letter_pos + 1
    /\ UNCHANGED <<nonColumnVars, col_letters>>

ColumnNext == ColumnLoop

(***************************************************************************)
(* The combined workflow of create_streamlit_ui: process_gmail_workflow    *)
(* (Phase 1), then process_excel_workflow (Phase 2, the run of impl "app") *)
(* and the final summary.                                                  *)
(***************************************************************************)
otherParts == <<cleanVars, decodeVars, cellVars, columnVars, folderVars, sanitizeVars>>

CombinedInit ==
    /\ ui_pc = "button"
    /\ emails = 0
    /\ email_idx = 0
    /\ total_attachments = 0
    /\ gmail_success = TRUE
    /\ gmail_processed = 0
    /\ excel_success = TRUE
    /\ excel_processed = 0
    /\ summary = "none"
    (* the run of Phase 2 has not been called *)
    /\ impl = "app"
    /\ header_row \in {-1, 0}
    /\ nfiles \in 0..MaxFiles
    /\ store \in InitialStores
    /\ pc = "idle"
    /\ file_idx = 0
    /\ strat = 0
    /\ parsed = EmptyFrame
    /\ df = EmptyFrame
    /\ sheet_has_headers = FALSE
    /\ is_first_file = TRUE
    /\ processed_count = 0
    /\ last_invoked = 0
    /\ nonempty_count = 0
    /\ after_hit = 0
    /\ clean_calls = 0
    /\ hdr_epoch = 0
    /\ appends = <<>>
    /\ store_calls = 0
    /\ pass = NoPass
    /\ log = "idle"

(* process_gmail_workflow returns {'success': ok, 'processed': n} and the  *)
(* interface takes gmail_success and gmail_processed from it; the locals   *)
(* of the call are dead                                                    *)
GmailReturns(ok, n) ==
    /\ gmail_success' = ok
    /\ gmail_processed' = n
    /\ emails' = 0
    /\ email_idx' = 0
    /\ total_attachments' = 0
    /\ ui_pc' = "phase1 returned"

(* the button: the flags are set and Phase 1 is called *)
StartCombined ==
    /\ ui_pc = "button"
    /\ ui_pc' = "search"
    /\ gmail_success' = TRUE
    /\ excel_success' = TRUE
    /\ gmail_processed' = 0
    /\ excel_processed' = 0
    /\ UNCHANGED <<nonUiVars, emails, email_idx, total_attachments, summary>>

(* search_emails returns the messages, or [] when the search raised;      *)
(* "if not emails: return {'success': True, 'processed': 0}"              *)
SearchEmails ==
    /\ ui_pc = "search"
    /\ \E found \in 0..MaxEmails :
        IF found = 0
            THEN GmailReturns(TRUE, 0)
            ELSE /\ emails' = found
                 /\ ui_pc' = "folder"
                 /\ UNCHANGED <<email_idx, total_attachments, gmail_success, gmail_processed>>
    /\ UNCHANGED <<nonUiVars, excel_success, excel_processed, summary>>

(* _create_drive_folder for the base folder: "" when it failed, and then  *)
(* "return {'success': False, 'processed': 0}"                            *)
CreateBaseFolder ==
    /\ ui_pc = "folder"
    /\ \E base_folder_id \in {"", "folder"} :
        IF base_folder_id = ""
            THEN GmailReturns(FALSE, 0)
            ELSE /\ ui_pc' = "emails"
                 /\ email_idx' = 0
                 /\ total_attachments' = 0
                 /\ UNCHANGED <<emails, gmail_success, gmail_processed>>
    /\ UNCHANGED <<nonUiVars, excel_success, excel_processed, summary>>

(* one email of the loop: its attachments are uploaded and counted, or    *)
(* the email raises and the loop's except logs it                         *)
ProcessEmail ==
    /\ ui_pc = "emails"
    /\ email_idx < emails
    /\ \E attachment_count \in 0..1 :
        total_attachments' = total_attachments + attachment_count
    /\ email_idx' = email_idx + 1
    /\ UNCHANGED <<nonUiVars, ui_pc, emails, gmail_success, gmail_processed,
                   excel_success, excel_processed, summary>>

(* after the loop: "return {'success': True, 'processed': total_attachments}" *)
GmailCompleted ==
    /\ ui_pc = "emails"
    /\ email_idx = emails
    /\ GmailReturns(TRUE, total_attachments)
    /\ UNCHANGED <<nonUiVars, excel_success, excel_processed, summary>>

(* the outer except of process_gmail_workflow: a statement outside the    *)
(* email loop raised                                                      *)
GmailExcept ==
    /\ ui_pc \in {"search", "folder", "emails"}
    /\ GmailReturns(FALSE, 0)
    /\ UNCHANGED <<nonUiVars, excel_success, excel_processed, summary>>

(* "if gmail_success:" *)
Phase2RunsAlways(success) == TRUE

Phase2Runs(success) == success

(* Phase 2 is called: process_excel_workflow begins *)
StartPhase2 ==
    /\ ui_pc = "phase1 returned"
    /\ Phase2Runs(gmail_success)
    /\ ui_pc' = "phase2"
    /\ pc' = "start"
    /\ UNCHANGED <<otherParts, runLocals, emails, email_idx, total_attachments,
                   gmail_success, gmail_processed, excel_success, excel_processed, summary>>

(* "else: st.error('Phase 1 failed')" *)
SkipPhase2 ==
    /\ ui_pc = "phase1 returned"
    /\ ~Phase2Runs(gmail_success)
    /\ ui_pc' = "summary"
    /\ UNCHANGED <<nonUiVars, emails, email_idx, total_attachments,
                   gmail_success, gmail_processed, excel_success, excel_processed, summary>>

(* process_excel_workflow returns {'success': True, 'processed': n} *)
ExcelReturns ==
    /\ ui_pc = "phase2"
    /\ pc = "done"
    /\ excel_success' = TRUE
    /\ excel_processed' = processed_count
    /\ ui_pc' = "summary"
    /\ UNCHANGED <<nonUiVars, emails, email_idx, total_attachments,
                   gmail_success, gmail_processed, summary>>

(* the outer except of process_excel_workflow: a statement outside the    *)
(* handlers of the file loop raised; {'success': False, 'processed': 0}   *)
ExcelExcept ==
    /\ ui_pc = "phase2"
    /\ pc \notin {"done", "failed"}
    /\ pc' = "failed"
    /\ excel_success' = FALSE
    /\ excel_processed' = 0
    /\ ui_pc' = "summary"
    /\ UNCHANGED <<otherParts, runLocals, emails, email_idx, total_attachments,
                   gmail_success, gmail_processed, summary>>

(* the final summary *)
Summary ==
    /\ ui_pc = "summary"
    /\ summary' = IF gmail_success /\ excel_success THEN "success" ELSE "errors"
    /\ ui_pc' = "end"
    /\ UNCHANGED <<nonUiVars, emails, email_idx, total_attachments,
                   gmail_success, gmail_processed, excel_success, excel_processed>>

CombinedNext ==
    \/ StartCombined
    \/ SearchEmails
    \/ CreateBaseFolder
    \/ ProcessEmail
    \/ GmailCompleted
    \/ GmailExcept
    \/ StartPhase2
    \/ SkipPhase2
    \/ RunNext
    \/ ExcelReturns
    \/ ExcelExcept
    \/ Summary

(***************************************************************************)
(* _create_drive_folder, called in sequence on one Drive.  A folder of the *)
(* Drive is a record of its id, name, parent and trashed flag.  An id is a *)
(* positive number; 0 stands for the empty string the function returns     *)
(* from its except branch.  A parent of "" is parent_folder_id = None.     *)
(***************************************************************************)
FolderNames == {"a", "b"}

ParentArgs == {"", "P"}

Folder(id, name, parent, trashed) ==
    [id |-> id, name |-> name, parent |-> parent, trashed |-> trashed]

(* the Drives the calls may start on: empty, one folder, a trashed folder, *)
(* a folder of the same name under another parent, two folders of one name *)
InitialDrives ==
    { {},
      {Folder(1, "a", "P", FALSE)},
      {Folder(1, "a", "P", TRUE)},
      {Folder(1, "a", "Q", FALSE)},
      {Folder(1, "a", "P", TRUE), Folder(2, "a", "P", FALSE)},
      {Folder(1, "a", "P", FALSE), Folder(2, "a", "P", FALSE)} }

(* files().list(q="name='..' and mimeType='..folder' and trashed=false"    *)
(* [+ " and '<parent>' in parents"])                                       *)
FoldersFound(fs, folder_name, parent_folder_id) ==
    {f \in fs :
        /\ f.name = folder_name
        /\ ~f.trashed
        /\ parent_folder_id # "" => f.parent = parent_folder_id}

(* "if files: return files[0]['id']" *)
ReturnsExistingNever(files) == FALSE

ReturnsExisting(files) == files # {}

FolderInit ==
    /\ folders \in InitialDrives
    /\ next_id = 3
    /\ folder_calls = <<>>

(* one call: the list raises, or a folder is found and the first of the   *)
(* response is returned (the query asks for no order), or the create      *)
(* raises, or the folder is created and its id returned                   *)
_create_drive_folder ==
    /\ Len(folder_calls) < MaxCalls
    /\ \E folder_name \in FolderNames, parent_folder_id \in ParentArgs :
        LET files == FoldersFound(folders, folder_name, parent_folder_id)
            call == [name |-> folder_name, parent |-> parent_folder_id,
                     found |-> {f.id : f \in files}]
        IN  \/ (* files().list raises: except, return "" *)
               /\ folder_calls' = Append(folder_calls,
                        call @@ [result |-> 0, created |-> FALSE, failed |-> TRUE])
               /\ UNCHANGED <<folders, next_id>>
            \/ /\ ReturnsExisting(files)
               /\ \E f \in files :
                    folder_calls' = Append(folder_calls,
                        call @@ [result |-> f.id, created |-> FALSE, failed |-> FALSE])
               /\ UNCHANGED <<folders, next_id>>
            \/ (* files().create raises: except, return "" *)
               /\ ~ReturnsExisting(files)
               /\ folder_calls' = Append(folder_calls,
                        call @@ [result |-> 0, created |-> FALSE, failed |-> TRUE])
               /\ UNCHANGED <<folders, next_id>>
            \/ /\ ~ReturnsExisting(files)
               /\ folders' = folders \cup
                    {Folder(next_id, folder_name,
                            IF parent_folder_id # "" THEN parent_folder_id ELSE "root",
                            FALSE)}
               /\ next_id' = next_id + 1
               /\ folder_calls' = Append(folder_calls,
                        call @@ [result |-> next_id, created |-> TRUE, failed |-> FALSE])
    /\ UNCHANGED nonFolderVars

FolderNext == _create_drive_folder

(***************************************************************************)
(* _sanitize_filename                                                      *)
(***************************************************************************)
(* the character class [<>:"/\\|?*] *)
ForbiddenChars == {"<", ">", ":", "\"", "/", "\\", "|", "?", "*"}

(* re.sub(r'[<>:"/\\|?*]', '_', filename) *)
ReplaceForbidden(t) == [i \in DOMAIN t |-> IF t[i] \in ForbiddenChars THEN "_" ELSE t[i]]

(* the position of the last "." of a text, 0 when it has none *)
LastDot(t) ==
    IF \E i \in DOMAIN t : t[i] = "."
        THEN CHOOSE i \in DOMAIN t : t[i] = "." /\ \A h \in (i + 1)..Len(t) : t[h] # "."
        ELSE 0

(* t[:n] *)
Prefix(t, n) == SubSeq(t, 1, IF Len(t) < n THEN Len(t) ELSE n)

(* "if len(cleaned) > 100" and "cleaned[:100]" *)
NameCap == 100

(* "base_name[:95]" *)
BaseCap == 95

(* with name_parts = cleaned.split('.'), extension = name_parts[-1] is the *)
(* text after the last "." and '.'.join(name_parts[:-1]) the text before   *)
(* it                                                                      *)
_sanitize_filename(name) ==
    LET replaced == ReplaceForbidden(name)
        dot == LastDot(replaced)
        extension == SubSeq(replaced, dot + 1, Len(replaced))
        base_name == SubSeq(replaced, 1, dot - 1)
    IN  IF Len(replaced) > NameCap
            THEN (IF dot > 0
                    THEN Prefix(base_name, BaseCap) \o <<".">> \o extension
                    ELSE Prefix(replaced, NameCap))
            ELSE replaced

(* n times the character c *)
Repeat(c, n) == [i \in 1..n |-> c]

(* what stands between the first run of a name and its last run: nothing, *)
(* a dot, two dots, a forbidden character, forbidden characters and a dot  *)
NameMiddles ==
    {<<>>, <<".">>, <<".", "t", ".">>, <<"/">>, <<":", "?", ".">>, <<"\\", ".", "*">>}

FileNames ==
    {Repeat("a", b) \o mid \o Repeat("x", e) :
        b \in 0..MaxBaseLen, mid \in NameMiddles, e \in 0..MaxExtLen}

SanitizeInit ==
    /\ sphase = "input"
    /\ filename \in FileNames
    /\ sanitized = <<>>

Sanitize ==
    /\ sphase = "input"
    /\ sanitized' = _sanitize_filename(filename)
    /\ sphase' = "done"
    /\ UNCHANGED <<nonSanitizeVars, filename>>

SanitizeNext == Sanitize

(***************************************************************************)
(* Specifications.  A specification leaves the other parts' variables at   *)
(* their idle values.                                                      *)
(***************************************************************************)
UiIdle ==
    /\ ui_pc = "idle"
    /\ emails = 0
    /\ email_idx = 0
    /\ total_attachments = 0
    /\ gmail_success = TRUE
    /\ gmail_processed = 0
    /\ excel_success = TRUE
    /\ excel_processed = 0
    /\ summary = "none"

FolderIdle ==
    /\ folders = {}
    /\ next_id = 0
    /\ folder_calls = <<>>

SanitizeIdle ==
    /\ sphase = "idle"
    /\ filename = <<>>
    /\ sanitized = <<>>

DecodeIdle ==
    /\ dphase = "idle"
    /\ container = NotZip
    /\ dhr = -1
    /\ dout = EmptyFrame
    /\ dout_app = EmptyFrame

CleanIdle ==
    /\ cphase = "idle"
    /\ cin = EmptyFrame
    /\ cout1 = EmptyFrame
    /\ cout2 = EmptyFrame

ColumnIdle ==
    /\ col_letters = <<>>
    /\ letter_pos = 0
    /\ col_num = 0

CellIdle ==
    /\ vphase = "idle"
    /\ value_in = NaN
    /\ cleaned = <<>>

RunIdle ==
    /\ impl = "none"
    /\ header_row = -1
    /\ nfiles = 0
    /\ store = <<>>
    /\ pc = "idle"
    /\ file_idx = 0
    /\ strat = 0
    /\ parsed = EmptyFrame
    /\ df = EmptyFrame
    /\ sheet_has_headers = FALSE
    /\ is_first_file = TRUE
    /\ processed_count = 0
    /\ last_invoked = 0
    /\ nonempty_count = 0
    /\ after_hit = 0
    /\ clean_calls = 0
    /\ hdr_epoch = 0
    /\ appends = <<>>
    /\ store_calls = 0
    /\ pass = NoPass
    /\ log = "idle"

Init == RunInit /\ CleanIdle /\ DecodeIdle /\ CellIdle /\ ColumnIdle /\ UiIdle /\ FolderIdle /\ SanitizeIdle
Next == RunNext
Spec == Init /\ [][Next]_vars

InitClean == CleanInit /\ RunIdle /\ DecodeIdle /\ CellIdle /\ ColumnIdle /\ UiIdle /\ FolderIdle /\ SanitizeIdle
NextClean == CleanNext
SpecClean == InitClean /\ [][NextClean]_vars

InitDecode == DecodeInit /\ RunIdle /\ CleanIdle /\ CellIdle /\ ColumnIdle /\ UiIdle /\ FolderIdle /\ SanitizeIdle
NextDecode == DecodeNext
SpecDecode == InitDecode /\ [][NextDecode]_vars

InitCell == CellInit /\ RunIdle /\ CleanIdle /\ DecodeIdle /\ ColumnIdle /\ UiIdle /\ FolderIdle /\ SanitizeIdle
NextCell == CellNext
SpecCell == InitCell /\ [][NextCell]_vars

InitColumn == ColumnInit /\ RunIdle /\ CleanIdle /\ DecodeIdle /\ CellIdle /\ UiIdle /\ FolderIdle /\ SanitizeIdle
NextColumn == ColumnNext
SpecColumn == InitColumn /\ [][NextColumn]_vars

InitSanitize ==
    /\ SanitizeInit /\ RunIdle /\ CleanIdle /\ DecodeIdle /\ CellIdle /\ ColumnIdle
    /\ UiIdle /\ FolderIdle
NextSanitize == SanitizeNext
SpecSanitize == InitSanitize /\ [][NextSanitize]_vars

InitFolder ==
    /\ FolderInit /\ RunIdle /\ CleanIdle /\ DecodeIdle /\ CellIdle /\ ColumnIdle
    /\ UiIdle /\ SanitizeIdle
NextFolder == FolderNext
SpecFolder == InitFolder /\ [][NextFolder]_vars

InitCombined ==
    /\ CombinedInit /\ CleanIdle /\ DecodeIdle /\ CellIdle /\ ColumnIdle
    /\ FolderIdle /\ SanitizeIdle
NextCombined == CombinedNext
SpecCombined == InitCombined /\ [][NextCombined]_vars

(***************************************************************************)
(* Claims.                                                                 *)
(***************************************************************************)

(* C1: within one file the strategies are invoked in increasing order, no   *)
(* strategy is invoked after one has returned a non-empty table, and that   *)
(* table, once found, has been handed to clean_dataframe exactly once.      *)
C1_CascadeStopsAtFirstTable ==
    /\ after_hit = 0
    /\ nonempty_count <= 1
    /\ clean_calls = nonempty_count
    /\ (pc = "cascade" => last_invoked < strat /\ nonempty_count = 0)
    /\ (pc = "parsed" /\ nonempty_count = 1 => last_invoked = strat)

(* a middle strategy of the long cascade returned the table *)
C1_Witness ==
    /\ impl = "auto"
    /\ pc = "parsed"
    /\ nonempty_count = 1
    /\ clean_calls = 1
    /\ Strategies(impl)[last_invoked] = "calamine"

(* C2: once the bytes are downloaded the cascade never raises: every step   *)
(* of it stays in the cascade or returns, and when no strategy produced a   *)
(* non-empty table what it returns is the empty table.                      *)
C2_ExhaustionReturnsEmpty ==
    [][pc = "cascade" =>
        /\ pc' \in {"cascade", "parsed"}
        /\ (pc' = "parsed" /\ nonempty_count' = 0 => df' = EmptyFrame)]_vars

(* all eight strategies of auto were tried or skipped and the cascade *)
(* returned the empty table                                            *)
C2_Witness ==
    /\ impl = "auto"
    /\ pc = "parsed"
    /\ log = "FAILED - All strategies failed"
    /\ last_invoked = Len(Strategies(impl))
    /\ df = EmptyFrame

(* the container of C3: shared strings ["Apple", "Banana"], cells         *)
(* A1 = shared 0, B1 = shared 1, A2 = 1, B2 empty                         *)
C3_Container ==
    [zip_ok |-> TRUE, ss_present |-> TRUE, ss_ok |-> TRUE,
     ss |-> <<txt_Apple, txt_Banana>>, has_sheet |-> TRUE, sheet_ok |-> TRUE,
     cells |-> <<Record(<<"A">>, 1, [t |-> txt_s, has_v |-> TRUE, v |-> Digits(0),
                                      has_is |-> FALSE, is_text |-> <<>>]),
                 Record(<<"B">>, 1, [t |-> txt_s, has_v |-> TRUE, v |-> Digits(1),
                                      has_is |-> FALSE, is_text |-> <<>>]),
                 Record(<<"A">>, 2, [t |-> <<>>, has_v |-> TRUE, v |-> Digits(1),
                                      has_is |-> FALSE, is_text |-> <<>>]),
                 Record(<<"B">>, 2, [t |-> <<>>, has_v |-> FALSE, v |-> <<>>,
                                      has_is |-> FALSE, is_text |-> <<>>])>>]

(* the table C3 expects: header [Column_1, Column_2], rows                *)
(* ["Apple", "Banana"], ["1", ""]                                         *)
C3_Expected ==
    TextFrame(<<ColumnName(0), ColumnName(1)>>,
              <<<<txt_Apple, txt_Banana>>, <<Digits(1), <<>>>>>>)

(* C3 as claimed: decoding the example container with no header row       *)
(* yields the expected table (shared-string cells resolved to their text), *)
(* in both implementations of the decoder.                                 *)
C3_SharedStringRoundTrip ==
    (dphase = "done" /\ container = C3_Container /\ dhr = -1)
        => (dout = C3_Expected /\ dout_app = C3_Expected)

(* what both decoders return for the example: the index tokens "0" and    *)
(* "1" in place of the strings                                            *)
C3_Observed ==
    (dphase = "done" /\ container = C3_Container /\ dhr = -1)
        => LET got == TextFrame(<<ColumnName(0), ColumnName(1)>>,
                                <<<<Digits(0), Digits(1)>>, <<Digits(1), <<>>>>>>)
           IN  dout = got /\ dout_app = got

(* the rows of a store under its header row *)
DataRows(s) == SubSeq(s, 2, Len(s))

(* the (PurchaseOrderId, SkuId) pair of data row i *)
KeyOf(s, i) == DedupKey(s[1], DataRows(s)[i])

(* the data rows whose pair occurs in no earlier data row *)
FirstOccurrences(s) ==
    {i \in DOMAIN DataRows(s) : \A h \in 1..(i - 1) : KeyOf(s, h) # KeyOf(s, i)}

(* C4: after a dedup pass that completed on a store with both key columns,  *)
(* the header is the header before the pass and the data rows are the rows  *)
(* before the pass whose (PurchaseOrderId, SkuId) pair did not occur in an  *)
(* earlier row, in their order; so no two rows share a pair.                *)
C4_DedupKeepsFirstOccurrences ==
    pass.state = "deduplicated" =>
        /\ HasKeyColumns(pass.before[1])
        /\ store[1] = pass.before[1]
        /\ \A i, j \in DOMAIN DataRows(store) : i # j => KeyOf(store, i) # KeyOf(store, j)
        /\ Len(DataRows(store)) = Cardinality(FirstOccurrences(pass.before))
        /\ \A k \in DOMAIN DataRows(store) :
            \E i \in FirstOccurrences(pass.before) :
                /\ Cardinality({h \in FirstOccurrences(pass.before) : h <= i}) = k
                /\ DataRows(store)[k] = DataRows(pass.before)[i]

(* a pass that removed a row and kept at least two *)
C4_Witness ==
    /\ pass.state = "deduplicated"
    /\ Len(store) < Len(pass.before)
    /\ Len(DataRows(store)) >= 2

(* a dedup pass that ended in its except branch *)
FailedPass == pass.state \in {"read failed", "frame failed", "clear failed", "update failed"}

(* C5 as claimed: after a failed dedup pass every row that was in the store *)
(* before the pass is still in the store.                                   *)
C5_FailedDedupLosesNothing ==
    FailedPass => \A i \in DOMAIN pass.before : \E j \in DOMAIN store : store[j] = pass.before[i]

(* C6 as claimed: the column-name row is sent with an append exactly when   *)
(* no table was written before in the run and the store is empty then, and  *)
(* at most one append of a run carries it.                                  *)
C6_HeaderOnlyIntoHeaderlessStore ==
    /\ \A i \in DOMAIN appends :
        appends[i].with_header <=> (appends[i].first_written /\ appends[i].rows_before = 0)
    /\ Cardinality({i \in DOMAIN appends : appends[i].with_header}) <= 1

(* C7 as claimed: every append is made at row (rows in the store + 1).      *)
C7_AppendsAfterLastRow ==
    \A i \in DOMAIN appends : appends[i].start_row = appends[i].rows_before + 1

(* C8 as claimed: the header presence and the row count an append uses were *)
(* both read from the store after the previous append completed.            *)
C8_StateReadBeforeEachWrite ==
    \A i \in DOMAIN appends :
        /\ appends[i].hdr_epoch = i - 1
        /\ appends[i].rows_epoch = i - 1

(* C9: the step taken for a table that is empty after cleaning makes no     *)
(* store call, appends nothing, leaves is_first_file and sheet_has_headers  *)
(* as they are and does not count the file.                                 *)
C9_EmptyTableNoStoreCall ==
    [][pc = "parsed" /\ IsEmpty(df) =>
        /\ store_calls' = store_calls
        /\ store' = store
        /\ appends' = appends
        /\ is_first_file' = is_first_file
        /\ sheet_has_headers' = sheet_has_headers
        /\ processed_count' = processed_count]_vars

(* a file whose table a strategy found and cleaning emptied was skipped *)
C9_Witness ==
    /\ pc = "next_file"
    /\ log = "SKIPPED - No data extracted"
    /\ nonempty_count = 1
    /\ clean_calls = 1

(* C10: cleaning a cleaned table changes nothing.                           *)
C10_CleanIdempotent == cphase = "twice" => cout2 = cout1

(* the first cleaning removed a row, kept one and rewrote a cell *)
C10_Witness ==
    /\ cphase = "twice"
    /\ Len(cout1.rows) < Len(cin.rows)
    /\ Len(cout1.rows) >= 1
    /\ \E i \in DOMAIN cout1.rows : \A h \in DOMAIN cin.rows : cout1.rows[i] # cin.rows[h]

(* the data rows of the values an append transmitted *)
TransmittedData(e) == IF e.with_header THEN Tail(e.values) ELSE e.values

(* row r was transmitted for the parsed row p of a frame: a missing cell   *)
(* as the empty string, any other cell as its text without apostrophes    *)
TransmittedFor(r, p) ==
    \A j \in DOMAIN r :
        IF IsNa(p[j]) THEN r[j] = Str(<<>>)
        ELSE r[j] \in {Str(RemoveApostrophes(AsStr(p[j], "object"))),
                       Str(AsStr(p[j], "float64"))}

(* C11 as claimed: every value an append transmits is a string, and every  *)
(* transmitted data row is a row of the parsed table with each missing     *)
(* cell, in any column, sent as the empty string.                          *)
C11_TransmittedValuesAreStrings ==
    [][Len(appends') > Len(appends) =>
        LET e == appends'[Len(appends')]
        IN  /\ \A i \in DOMAIN e.values : \A j \in DOMAIN e.values[i] :
                e.values[i][j].k = "str"
            /\ \A i \in DOMAIN TransmittedData(e) :
                \E h \in DOMAIN parsed.rows :
                    TransmittedFor(TransmittedData(e)[i], parsed.rows[h])]_vars

(* where the code departs from C11: the integer labels of header=None are  *)
(* sent as numbers, and a missing cell of a text column is sent as "nan";  *)
(* every other value is sent as C11 says                                   *)
C11_OnlyLabelsAndObjectColumns ==
    [][Len(appends') > Len(appends) =>
        LET e == appends'[Len(appends')]
            data == TransmittedData(e)
        IN  /\ \A i \in DOMAIN data : \A j \in DOMAIN data[i] : data[i][j].k = "str"
            /\ e.with_header =>
                \A j \in DOMAIN e.values[1] :
                    e.values[1][j].k = "str" \/ e.columns = IntLabels
            /\ \A i \in DOMAIN data :
                \E h \in DOMAIN parsed.rows :
                    \A j \in DOMAIN data[i] :
                        \/ TransmittedFor(<<data[i][j]>>, <<parsed.rows[h][j]>>)
                        \/ /\ IsNa(parsed.rows[h][j])
                           /\ parsed.dtypes[j] = "object"
                           /\ data[i][j] = Str(txt_nan)]_vars

(* C12 as claimed: a download that raises fails that one file only: the    *)
(* run stays in its file loop, where the file is skipped and the later     *)
(* files and the final dedup step follow; it never ends the run.           *)
C12_DownloadFailureIsPerFile ==
    /\ pc # "crashed"
    /\ (log = "download failed" => pc = "parsed" /\ IsEmpty(df))

(* C13: a step in which the append of a file fails, at the read of the     *)
(* store or at the write, logs the failure, leaves the store, the count of *)
(* processed files, is_first_file and sheet_has_headers as they were, and  *)
(* returns to the head of the file loop with the later files still to do.  *)
C13_AppendFailureAbortsOneFile ==
    [][log' \in {"append failed: read", "append failed: write"} /\ pc = "parsed" =>
        /\ pc' = "next_file"
        /\ file_idx' = file_idx /\ nfiles' = nfiles
        /\ processed_count' = processed_count
        /\ is_first_file' = is_first_file
        /\ sheet_has_headers' = sheet_has_headers
        /\ store' = store /\ appends' = appends]_vars

(* the write of the first file failed (the header check, then a read and   *)
(* a failed write, then a read and a write: five store calls) and the      *)
(* second file was appended, with the header the first would have carried  *)
C13_Witness ==
    /\ file_idx = 2
    /\ log = "APPENDED"
    /\ store_calls = 5
    /\ Len(appends) = 1
    /\ appends[1].file = 2
    /\ appends[1].with_header
    /\ processed_count = 1

(* the run has ended: main / process_excel_workflow returned or raised *)
RunEnded == pc \in {"done", "crashed"}

(* the dedup pass has been invoked *)
DedupInvoked == pass.state # "none"

(* C14 as claimed: the dedup pass is invoked at most once, only from the   *)
(* end of the file loop with every file handled and no append after it,    *)
(* and a run that ends has invoked it exactly when an append succeeded.    *)
C14_DedupOnceIffAppended ==
    [][/\ pass' # pass =>
            /\ ~DedupInvoked
            /\ pc = "next_file" /\ file_idx = nfiles
            /\ appends' = appends
            /\ RunEnded'
       /\ RunEnded' => (DedupInvoked' <=> Len(appends') > 0)]_vars

(* the same with the runs that a raising download ends left aside *)
C14_HoldsUnlessDownloadRaises ==
    [][/\ pass' # pass =>
            /\ ~DedupInvoked
            /\ pc = "next_file" /\ file_idx = nfiles
            /\ appends' = appends
            /\ RunEnded'
       /\ pc' = "done" => (DedupInvoked' <=> Len(appends') > 0)]_vars

(* the store the pass found has a header without one of the key columns *)
KeysAbsent == pass.before # <<>> /\ ~HasKeyColumns(pass.before[1])

(* C15 as claimed: after a dedup pass on a store whose header lacks        *)
(* PurchaseOrderId or SkuId the store is what it was before the pass.      *)
C15_MissingKeysLeaveStoreUnchanged ==
    DedupInvoked /\ KeysAbsent => store = pass.before

(* the store differs only when auto's rewrite failed after its clear; app  *)
(* makes no write call at all when a key column is absent                  *)
C15_UnchangedUnlessRewriteFails ==
    DedupInvoked /\ KeysAbsent =>
        /\ store # pass.before => impl = "auto" /\ pass.state = "update failed" /\ store = <<>>
        /\ impl = "app" => pass.state \in {"read failed", "frame failed", "skipped"}
        /\ impl = "auto" =>
            pass.state \in {"read failed", "frame failed", "clear failed",
                            "update failed", "rewritten"}

(* C18: no call of the decoder raises to its caller, and on a stream that *)
(* is no archive, an archive without a worksheet part, or one whose        *)
(* worksheet cannot be read, both decoders return the empty table, under   *)
(* every header policy.                                                    *)
C18_DecoderNeverRaises ==
    /\ dphase # "crashed"
    /\ (dphase = "done"
            /\ (~container.zip_ok \/ ~container.has_sheet \/ ~container.sheet_ok)
        => dout = EmptyFrame /\ dout_app = EmptyFrame)

(* both decoders have returned on an archive whose worksheet part exists   *)
(* and cannot be read                                                      *)
C18_Witness ==
    /\ dphase = "done"
    /\ container.zip_ok /\ container.has_sheet /\ ~container.sheet_ok
    /\ dhr = 0
    /\ dout = EmptyFrame /\ dout_app = EmptyFrame

(* the dense grid of a readable container as the decoder resolves it:     *)
(* rows 1..max_row by columns 1..max_col of the matched cells, before any  *)
(* row is dropped                                                          *)
DenseGrid(c, str_branch) ==
    LET cells == FindCells(c.cells)
        strings == IF c.ss_present /\ c.ss_ok THEN c.ss ELSE <<>>
    IN  [r \in 1..MaxRow(cells) |->
            [col \in 1..MaxCol(cells) |-> CellData(cells, strings, str_branch, r, col)]]

(* the rows of a grid that hold a non-empty cell *)
NonBlankRows(g) == {r \in DOMAIN g : \E j \in DOMAIN g[r] : g[r][j] # <<>>}

(* the k-th smallest element of a set of row numbers *)
Nth(rowset, k) == CHOOSE r \in rowset : Cardinality({h \in rowset : h <= r}) = k

(* a row of texts as a row of a frame *)
StrRow(row) == [j \in DOMAIN row |-> Str(row[j])]

(* out is the grid g with its blank rows dropped and then the header       *)
(* policy hr applied: no output row is blank, the data rows are the        *)
(* non-blank rows in their order (after the header row when there is one,  *)
(* itself the hr-th non-blank row), and too few non-blank rows give the    *)
(* empty table                                                             *)
BlankRowsDroppedIn(out, g, hr) ==
    LET nb == NonBlankRows(g)
        skip == hr + 1
    IN  IF Cardinality(nb) < Max(1, hr + 2) THEN out = EmptyFrame
        ELSE /\ \A i \in DOMAIN out.rows : \E j \in DOMAIN out.rows[i] : out.rows[i][j] # Str(<<>>)
             /\ Len(out.rows) = Cardinality(nb) - skip
             /\ \A k \in DOMAIN out.rows : out.rows[k] = StrRow(g[Nth(nb, k + skip)])
             /\ hr >= 0 =>
                    \A j \in DOMAIN out.columns :
                        g[Nth(nb, skip)][j] # <<>> => out.columns[j] = Str(g[Nth(nb, skip)][j])

(* a container the decoder can read cells from *)
Readable(c) == c.zip_ok /\ c.has_sheet /\ c.sheet_ok /\ c.cells # <<>>

(* C16: in both decoders every row of the dense grid whose cells all       *)
(* resolve to the empty string is dropped before the header policy is      *)
(* applied, so no blank row is in the output, and the other rows keep      *)
(* their order.                                                            *)
C16_BlankRowsDropped ==
    dphase = "done" /\ Readable(container) =>
        /\ BlankRowsDroppedIn(dout, DenseGrid(container, TRUE), dhr)
        /\ BlankRowsDroppedIn(dout_app, DenseGrid(container, FALSE), dhr)

(* a sheet with cells in row 2 only: row 1 of the grid is blank and the    *)
(* output is row 2 alone                                                   *)
C16_Witness ==
    /\ dphase = "done" /\ Readable(container) /\ dhr = -1
    /\ Len(DenseGrid(container, TRUE)) = 2
    /\ NonBlankRows(DenseGrid(container, TRUE)) = {2}
    /\ Len(dout.rows) = 1 /\ Len(dout_app.rows) = 1
    /\ dout.rows[1] = StrRow(DenseGrid(container, TRUE)[2])

(* out is what the explicit header row hr makes of the grid g: with at    *)
(* least hr + 2 non-blank rows, the names are the cells of the hr-th       *)
(* (0-based) non-blank row, Column_j for a blank one, the data rows are    *)
(* the non-blank rows after it in order, every row is as wide as the       *)
(* header and the width is max_col; with fewer rows out is empty           *)
ExplicitHeaderIn(out, g, hr, max_col) ==
    LET nb == NonBlankRows(g)
        header == g[Nth(nb, hr + 1)]
    IN  IF Cardinality(nb) < hr + 2 THEN out = EmptyFrame
        ELSE /\ Len(out.columns) = max_col
             /\ \A j \in DOMAIN out.columns :
                    out.columns[j] =
                        Str(IF header[j] # <<>> THEN header[j] ELSE ColumnName(j - 1))
             /\ Len(out.rows) = Cardinality(nb) - (hr + 1)
             /\ \A k \in DOMAIN out.rows :
                    /\ out.rows[k] = StrRow(g[Nth(nb, k + hr + 1)])
                    /\ Len(out.rows[k]) = Len(out.columns)

(* the largest column index among the cells the decoder matched *)
MaxObservedColumn(c) ==
    LET cells == FindCells(c.cells)
    IN  CHOOSE m \in {ColumnNumber(cells[i].col) : i \in DOMAIN cells} :
            \A i \in DOMAIN cells : ColumnNumber(cells[i].col) <= m

TextAfterQuotes(c, dt) ==
    IF dt = "object" THEN RemoveApostrophes(AsStr(c, "object")) ELSE AsStr(c, dt)

(* a second-column value that is missing, empty, whitespace-only or "nan"  *)
BlankKey(c, dt) ==
    \/ IsNa(c)
    \/ Strip(TextAfterQuotes(c, dt)) = <<>>
    \/ Strip(TextAfterQuotes(c, dt)) = txt_nan

(* row i of the input with the apostrophes of its text columns removed *)
QuotedOut(d, i) ==
    [j \in DOMAIN d.columns |->
        IF d.dtypes[j] = "object"
            THEN Str(TextAfterQuotes(d.rows[i][j], "object"))
            ELSE d.rows[i][j]]

(* C19: the output of the post-processor holds rows of its input only      *)
(* (apostrophes removed); with two columns or more it holds no row whose   *)
(* second column is missing, empty, whitespace-only or "nan" and it holds  *)
(* every input row whose second column is none of these; with one column   *)
(* it holds every input row.                                               *)
C19_SecondColumnFilter ==
    cphase \in {"once", "twice"} /\ ~IsEmpty(cin) =>
        /\ \A k \in DOMAIN cout1.rows :
            \E i \in DOMAIN cin.rows : cout1.rows[k] = QuotedOut(cin, i)
        /\ Len(cin.columns) >= 2 =>
            /\ \A k \in DOMAIN cout1.rows : ~BlankKey(cout1.rows[k][2], cout1.dtypes[2])
            /\ \A i \in DOMAIN cin.rows :
                ~BlankKey(cin.rows[i][2], cin.dtypes[2]) =>
                    \E k \in DOMAIN cout1.rows : cout1.rows[k] = QuotedOut(cin, i)
        /\ Len(cin.columns) < 2 =>
            \A i \in DOMAIN cin.rows :
                \E k \in DOMAIN cout1.rows : cout1.rows[k] = QuotedOut(cin, i)

(* of two rows the one with a second column reading "nan" once its         *)
(* apostrophe is removed was dropped and the other was kept                *)
C19_Witness ==
    /\ cphase = "once"
    /\ Len(cin.columns) = 2 /\ Len(cin.rows) = 2
    /\ cin.rows[1][2] = Str(<<"n", "'", "a", "n">>)
    /\ ~BlankKey(cin.rows[2][2], cin.dtypes[2])
    /\ cout1.rows = <<QuotedOut(cin, 2)>>

(* the input rows the second-column filter lets through *)
PassFilter(d) ==
    {i \in DOMAIN d.rows :
        Len(d.columns) < 2 \/ ~BlankKey(d.rows[i][2], d.dtypes[2])}

(* of those, the rows equal to no earlier one once apostrophes are removed *)
FirstOfEqual(d) ==
    {i \in PassFilter(d) :
        \A h \in PassFilter(d) : h < i => QuotedOut(d, h) # QuotedOut(d, i)}

(* C20: the output of the post-processor has no two equal rows; it is, in  *)
(* input order, the first row of each group of rows that are equal after   *)
(* apostrophe removal, taken among the rows of this one table.             *)
C20_RowDeduplication ==
    cphase \in {"once", "twice"} /\ ~IsEmpty(cin) =>
        /\ \A k, l \in DOMAIN cout1.rows : k # l => cout1.rows[k] # cout1.rows[l]
        /\ Len(cout1.rows) = Cardinality(FirstOfEqual(cin))
        /\ \A k \in DOMAIN cout1.rows :
            cout1.rows[k] = QuotedOut(cin, Nth(FirstOfEqual(cin), k))

(* two rows that differ by an apostrophe only: the first one is kept *)
C20_Witness ==
    /\ cphase = "once"
    /\ Len(cin.rows) = 2
    /\ cin.rows[1] # cin.rows[2]
    /\ QuotedOut(cin, 1) = QuotedOut(cin, 2)
    /\ PassFilter(cin) = {1, 2}
    /\ cout1.rows = <<QuotedOut(cin, 1)>>

(* C21 as claimed: the normalizer returns a value for every input; for a   *)
(* string the result has no leading and no trailing whitespace and holds   *)
(* no apostrophe; for a missing value it is the empty string and for a     *)
(* number its default string representation.                               *)
C21_NormalizerOutput ==
    vphase = "done" =>
        /\ value_in.k = "str" =>
            /\ cleaned = <<>> \/ (Head(cleaned) \notin Whitespace
                                    /\ cleaned[Len(cleaned)] \notin Whitespace)
            /\ \A i \in DOMAIN cleaned : cleaned[i] # "'"
        /\ value_in.k = "nan" => cleaned = <<>>
        /\ value_in.k = "num" => cleaned = Digits(value_in.n)

(* what the code gives for a string: no apostrophe, and whitespace at an   *)
(* end of the result only where an apostrophe stood between it and that    *)
(* end of the stripped input; the other inputs are as C21 says             *)
C21_StripBeforeApostrophes ==
    vphase = "done" =>
        /\ value_in.k = "str" =>
            /\ \A i \in DOMAIN cleaned : cleaned[i] # "'"
            /\ cleaned # <<>> /\ Head(cleaned) \in Whitespace =>
                    Head(Strip(value_in.s)) = "'"
            /\ cleaned # <<>> /\ cleaned[Len(cleaned)] \in Whitespace =>
                    Strip(value_in.s)[Len(Strip(value_in.s))] = "'"
        /\ value_in.k = "nan" => cleaned = <<>>
        /\ value_in.k = "num" => cleaned = Digits(value_in.n)

(* every match of the cell pattern took its payloads from the record it    *)
(* started at: one match per record, none reaching into a later record     *)
SelfContained(recs) == \A p \in DOMAIN recs : MatchAt(recs, p).end = p

(* the value the priority rule gives a record: the inline string when it   *)
(* is non-empty, else for a shared-string cell the map entry of its index  *)
(* (the token itself when the map has none), else the direct value, else   *)
(* the empty string; normalized                                            *)
PriorityValue(rec, strings) ==
    clean_cell_value(Str(
        IF rec.has_is /\ rec.is_text # <<>> THEN Strip(rec.is_text)
        ELSE IF rec.t = txt_s /\ rec.has_v THEN SharedStringsGet(strings, rec.v)
        ELSE IF rec.has_v THEN Strip(rec.v)
        ELSE <<>>))

(* the same without the shared-string step: the token stands for itself *)
TokenValue(rec) ==
    clean_cell_value(Str(
        IF rec.has_is /\ rec.is_text # <<>> THEN Strip(rec.is_text)
        ELSE IF rec.has_v THEN Strip(rec.v)
        ELSE <<>>))

(* the shared-string map the decoder built for a container *)
SharedStrings(c) == IF c.ss_present /\ c.ss_ok THEN c.ss ELSE <<>>

(* a decoded sheet in which the rows of the output are the rows of the     *)
(* sheet: no header row, no blank row dropped, each record matched alone   *)
RowsAsInSheet ==
    /\ dphase = "done" /\ Readable(container) /\ dhr = -1
    /\ SelfContained(container.cells)
    /\ Len(dout.rows) = MaxRow(FindCells(container.cells))
    /\ Len(dout_app.rows) = MaxRow(FindCells(container.cells))

(* C22 as claimed: the value both decoders give a cell is the one the      *)
(* priority rule resolves from its record: inline string, else shared      *)
(* string by index (raw token when unresolvable), else direct value, else  *)
(* empty.                                                                  *)
C22_ValuePriority ==
    RowsAsInSheet =>
        \A i \in DOMAIN container.cells :
            LET rec == container.cells[i]
                want == Str(PriorityValue(rec, SharedStrings(container)))
            IN  /\ dout.rows[rec.row][ColumnNumber(rec.col)] = want
                /\ dout_app.rows[rec.row][ColumnNumber(rec.col)] = want

(* what both decoders give: the priority rule without its shared-string    *)
(* step, the index token of a shared-string cell standing for itself       *)
C22_SharedStringStepNeverTaken ==
    RowsAsInSheet =>
        \A i \in DOMAIN container.cells :
            LET rec == container.cells[i]
            IN  /\ dout.rows[rec.row][ColumnNumber(rec.col)] = Str(TokenValue(rec))
                /\ dout_app.rows[rec.row][ColumnNumber(rec.col)] = Str(TokenValue(rec))

(* the sparse (row, col) map of a container has one entry per cell record, *)
(* at the record's reference, with a value resolved from the record's own  *)
(* payloads                                                                *)
OneEntryPerRecord(c, str_branch) ==
    LET cells == FindCells(c.cells)
    IN  /\ Len(cells) = Len(c.cells)
        /\ \A i \in DOMAIN c.cells :
            LET rec == c.cells[i]
            IN  /\ cells[i].row = rec.row /\ cells[i].col = rec.col
                /\ CellData(cells, SharedStrings(c), str_branch,
                            rec.row, ColumnNumber(rec.col))
                        \in {PriorityValue(rec, SharedStrings(c)), TokenValue(rec)}

(* C23 as claimed: in both decoders every cell record of the worksheet     *)
(* gives exactly one entry of the sparse map, at its own reference and     *)
(* with a value from inside that record; no record takes the value of a    *)
(* later one and none is skipped.                                          *)
C23_OneEntryPerCellRecord ==
    dphase = "done" /\ Readable(container) =>
        /\ OneEntryPerRecord(container, TRUE)
        /\ OneEntryPerRecord(container, FALSE)

(* it is so exactly for the sheets in which no match of the cell pattern   *)
(* runs past the record it started at, which is every sheet whose records  *)
(* all carry a <v> element                                                 *)
C23_OnlyWhenMatchesSelfContained ==
    dphase = "done" /\ Readable(container) =>
        /\ SelfContained(container.cells) =>
            OneEntryPerRecord(container, TRUE) /\ OneEntryPerRecord(container, FALSE)
        /\ ~SelfContained(container.cells) =>
            Len(FindCells(container.cells)) < Len(container.cells)
        /\ (\A i \in DOMAIN container.cells : container.cells[i].has_v) =>
            SelfContained(container.cells)

RECURSIVE Power26(_)
Power26(e) == IF e = 0 THEN 1 ELSE 26 * Power26(e - 1)

(* the value of a letter string in bijective base 26: the sum of the       *)
(* letter values (A = 1 .. Z = 26), each times 26 to the number of letters *)
(* after it                                                                *)
RECURSIVE PlaceValueSum(_, _)
PlaceValueSum(ls, i) ==
    IF i > Len(ls) THEN 0
    ELSE LetterValue(ls[i]) * Power26(Len(ls) - i) + PlaceValueSum(ls, i + 1)

(* the letter string of a 1-based column index *)
RECURSIVE LettersOfIndex(_)
LettersOfIndex(n) ==
    IF n <= 0 THEN <<>>
    ELSE LettersOfIndex((n - 1) \div 26) \o <<Letters[((n - 1) % 26) + 1]>>

(* the letters the loop has taken so far *)
LettersDone == SubSeq(col_letters, 1, letter_pos - 1)

(* C24: the loop computes the bijective base-26 value of the letters it    *)
(* has taken: A..Z give 1..26, AA gives 27, a string followed by a letter  *)
(* gives 26 times the index of the string plus the index of the letter,    *)
(* and the letters are recovered from the index, so distinct letter        *)
(* strings have distinct indexes.                                          *)
C24_Base26ColumnIndex ==
    letter_pos >= 1 =>
        /\ col_num = PlaceValueSum(LettersDone, 1)
        /\ col_num = ColumnNumber(LettersDone)
        /\ LettersOfIndex(col_num) = LettersDone
        /\ Len(LettersDone) = 1 =>
            col_num \in 1..26 /\ Letters[col_num] = LettersDone[1]
        /\ LettersDone = <<"A", "A">> => col_num = 27
        /\ Len(LettersDone) >= 2 =>
            col_num = 26 * ColumnNumber(SubSeq(LettersDone, 1, Len(LettersDone) - 1))
                        + ColumnNumber(<<LettersDone[Len(LettersDone)]>>)

(* the loop has run over "AZ": 26 * 1 + 26 *)
C24_Witness ==
    /\ col_letters = <<"A", "Z">>
    /\ letter_pos = 3
    /\ col_num = 52

(* the strategy that returned the table of the current file *)
ReturningStrategy == Strategies(impl)[last_invoked]

(* a strategy has just returned a non-empty table to the cascade *)
StrategyReturned == pc = "parsed" /\ nonempty_count = 1 /\ ~IsEmpty(parsed)

(* the names Column_1 .. Column_k for a table of k columns *)
SyntheticNames(k) == [j \in 1..k |-> Str(ColumnName(j - 1))]

(* C25 as claimed: whichever strategy returns the table, under policy none *)
(* its column names are Column_1..Column_k, and under an explicit header   *)
(* row they are the cells of that row of the file.                         *)
C25_HeaderPolicyIdentical ==
    StrategyReturned =>
        /\ header_row = -1 => parsed.columns = SyntheticNames(Len(parsed.columns))
        /\ header_row >= 0 => parsed.columns \in {KeyHeader, OtherHeader}

(* under policy none the names are Column_1..Column_k for the desktop-     *)
(* application conversion and the raw decoder only; the structured parsers *)
(* and the external converters, which read through pandas with             *)
(* header=None, label the columns with the integers 0..k-1                 *)
C25_PandasLabelsAreIntegers ==
    StrategyReturned /\ header_row = -1 =>
        IF ReturningStrategy \in {"xlwings", "raw_xml"}
            THEN parsed.columns = SyntheticNames(Len(parsed.columns))
            ELSE parsed.columns = [j \in DOMAIN parsed.columns |-> Num(j - 1)]

(* the store was empty when the run began: it still was at the first      *)
(* append that succeeded, and nothing writes to it before that             *)
StartedEmptyAndAppended == Len(appends) > 0 /\ appends[1].rows_before = 0

(* C26 as claimed: after a run that began on an empty store and appended   *)
(* at least one table, the first row of the store is the column-name row   *)
(* of the first table whose append succeeded, whether or not the appends   *)
(* of earlier files failed.                                                *)
C26_FirstRowIsFirstAppendedHeader ==
    RunEnded /\ StartedEmptyAndAppended =>
        /\ store # <<>>
        /\ store[1] = RowText(appends[1].columns)

(* it is so in every run except those whose dedup pass cleared the store   *)
(* and then failed to write it back, which leave the store empty           *)
C26_HoldsUnlessRewriteFails ==
    RunEnded /\ StartedEmptyAndAppended =>
        IF pass.state = "update failed" THEN store = <<>>
        ELSE /\ store # <<>>
             /\ store[1] = RowText(appends[1].columns)
             /\ appends[1].with_header

(* the append of file 1 failed, file 2 was appended with its column names  *)
(* and the run ended with them in the first row                            *)
C26_LaterFileCarriesHeader ==
    /\ pc = "done" /\ StartedEmptyAndAppended
    /\ appends[1].file = 2
    /\ store_calls >= 5
    /\ pass.state = "deduplicated"
    /\ store[1] = RowText(appends[1].columns)

(* the values the t attribute of a cell record takes *)
CellTypes == {<<>>, txt_s, txt_str, txt_inlineStr}

(* the if/elif chains of the two decoders pick the same value for a match, *)
(* whatever type flag the match carries: the branch for 'str' that auto    *)
(* has and app lacks strips the direct value, as the branch after it does  *)
SameValueChain(c) ==
    \A i \in DOMAIN FindCells(c.cells) : \A t \in CellTypes :
        LET m == [FindCells(c.cells)[i] EXCEPT !.cell_type = t]
        IN  CellValue(m, SharedStrings(c), TRUE) = CellValue(m, SharedStrings(c), FALSE)

(* C27: on every container and under every header row the decoder of      *)
(* app.py and the decoder of flipkartninjutsu_auto.py return the same      *)
(* table (same names, same rows, same order), the empty table included.    *)
C27_DecodersEquivalent ==
    dphase = "done" =>
        /\ dout_app = dout
        /\ SameValueChain(container)

(* both decoders returned a table with a header row and a data row from a  *)
(* sheet that holds a cell of type 'str'                                   *)
C27_Witness ==
    /\ dphase = "done" /\ dhr = 0
    /\ \E i \in DOMAIN container.cells : container.cells[i].t = txt_str
    /\ Len(dout.rows) = 1 /\ Len(dout.columns) = 2
    /\ dout_app = dout

(* process_excel_workflow has not been called and nothing of it has       *)
(* happened: no read of the spreadsheet, no append, no dedup pass           *)
Phase2Untouched ==
    /\ pc = "idle"
    /\ store_calls = 0
    /\ appends = <<>>
    /\ pass = NoPass

(* Phase 1 is running: the button was pressed and process_gmail_workflow  *)
(* has not returned                                                       *)
InPhase1 == ui_pc \in {"search", "folder", "emails"}

(* C28: in the combined workflow Phase 2 is called only once Phase 1 has   *)
(* returned and only when it reported success; a run whose Phase 1 failed  *)
(* makes no spreadsheet read, append or dedup call, and its final summary  *)
(* reports failure.                                                        *)
C28_Phase2OnlyAfterPhase1Success ==
    /\ [](/\ ui_pc \in {"button", "phase1 returned"} \/ InPhase1 => Phase2Untouched
          /\ ~Phase2Untouched => gmail_success /\ ui_pc \in {"phase2", "summary", "end"}
          /\ ui_pc = "phase2" => gmail_success
          /\ ~gmail_success => Phase2Untouched /\ excel_processed = 0
          /\ ui_pc = "end" /\ ~gmail_success => summary = "errors")
    /\ [][ui_pc' = "phase2" /\ ui_pc # "phase2" =>
            ui_pc = "phase1 returned" /\ gmail_success /\ pc' = "start"]_vars

(* Phase 1 failed after it found emails; the run ended with the summary    *)
(* of a failure and Phase 2 was never called                               *)
C28_Witness ==
    /\ ui_pc = "end"
    /\ ~gmail_success
    /\ summary = "errors"
    /\ Phase2Untouched

(* Phase 1 succeeded with two attachments and Phase 2 appended a file *)
C28_BothPhasesRan ==
    /\ ui_pc = "end"
    /\ gmail_success /\ gmail_processed = 2
    /\ excel_success /\ excel_processed >= 1
    /\ summary = "success"
    /\ store_calls > 0

(* calls i and j were made with the same name and the same parent *)
SameFolderArgs(i, j) ==
    /\ folder_calls[i].name = folder_calls[j].name
    /\ folder_calls[i].parent = folder_calls[j].parent

(* C29 as claimed: a call that finds a folder of the name under the parent *)
(* returns that folder's id and creates nothing; calls with the same name  *)
(* and parent create at most one folder between them and all return the    *)
(* same id.                                                                *)
C29_CreateFolderIdempotent ==
    /\ \A i \in DOMAIN folder_calls :
        folder_calls[i].found # {} =>
            folder_calls[i].result \in folder_calls[i].found /\ ~folder_calls[i].created
    /\ \A i, j \in DOMAIN folder_calls :
        SameFolderArgs(i, j) =>
            /\ folder_calls[i].result = folder_calls[j].result
            /\ i # j => ~(folder_calls[i].created /\ folder_calls[j].created)

(* C29, amended: a call that does not fail and finds a folder returns the  *)
(* id of a found folder and creates nothing; a call that fails returns the *)
(* empty string and creates nothing; calls with the same name and parent   *)
(* create at most one folder between them, and those that do not fail      *)
(* return the same id as long as the query matches at most one folder.     *)
C29_IdempotentApartFromFailures ==
    /\ \A i \in DOMAIN folder_calls :
        /\ folder_calls[i].failed => folder_calls[i].result = 0 /\ ~folder_calls[i].created
        /\ ~folder_calls[i].failed /\ folder_calls[i].found # {} =>
            folder_calls[i].result \in folder_calls[i].found /\ ~folder_calls[i].created
        /\ ~folder_calls[i].failed /\ folder_calls[i].found = {} => folder_calls[i].created
    /\ \A i, j \in DOMAIN folder_calls :
        SameFolderArgs(i, j) /\ i < j =>
            /\ ~(folder_calls[i].created /\ folder_calls[j].created)
            /\ (~folder_calls[i].failed /\ ~folder_calls[j].failed
                    /\ Cardinality(folder_calls[j].found) <= 1)
                => folder_calls[i].result = folder_calls[j].result
    /\ Cardinality(folders) <= 2 + Cardinality({<<folder_calls[i].name, folder_calls[i].parent>> :
                                                    i \in DOMAIN folder_calls})

(* on an empty Drive the first call created the folder and the two calls   *)
(* after it, with the same name and parent, returned its id                *)
C29_Witness ==
    /\ Len(folder_calls) = 3
    /\ \A i \in 1..3 : folder_calls[i].name = "a" /\ folder_calls[i].parent = "P"
    /\ folder_calls[1].found = {} /\ folder_calls[1].created
    /\ folder_calls[2].result = folder_calls[1].result /\ ~folder_calls[2].created
    /\ folder_calls[3].result = folder_calls[1].result /\ ~folder_calls[3].created
    /\ Cardinality(folders) = 1

(* C30 as claimed: the sanitized name holds none of the characters        *)
(* < > : " / \ | ? * and is at most 100 characters long.                   *)
C30_SanitizedNameBounded ==
    sphase = "done" =>
        /\ \A i \in DOMAIN sanitized : sanitized[i] \notin ForbiddenChars
        /\ Len(sanitized) <= 100

(* what the code gives: no forbidden character; a name of at most 100      *)
(* characters is only rewritten character by character; a longer one is    *)
(* cut to 100, or, when it has a dot, to 95 characters of base, the dot    *)
(* and the whole extension, which is over 100 when the extension is longer *)
(* than 4 characters                                                       *)
C30_ExtensionIsNotCut ==
    sphase = "done" =>
        LET dot == LastDot(filename)
            ext_len == Len(filename) - dot
        IN  /\ \A i \in DOMAIN sanitized : sanitized[i] \notin ForbiddenChars
            /\ Len(filename) <= 100 => Len(sanitized) = Len(filename)
            /\ Len(filename) > 100 /\ dot = 0 => Len(sanitized) = 100
            /\ Len(filename) > 100 /\ dot > 0 =>
                Len(sanitized) = (IF dot - 1 < 95 THEN dot - 1 ELSE 95) + 1 + ext_len
            /\ Len(sanitized) > 100 => dot > 0 /\ ext_len > 4

====
